---- MODULE Spec2Model ----
(***************************************************************************)
(* Model of the SFTP deploy action (negagen/sftp_deploy_action).           *)
(*                                                                         *)
(* One run of deploy() / deployWithDependencies() of the identity-file     *)
(* variant is a sequential state machine.  Every action is one awaited     *)
(* external call (subprocess, file write, unlink, directory read) with the *)
(* outcome the collaborator may produce, followed by the synchronous code  *)
(* up to the next awaited call.  `trace` is the history of every call the  *)
(* run makes on its collaborators (core, exec, fs, console, process.env),  *)
(* in program order.                                                       *)
(***************************************************************************)
EXTENDS Integers, Sequences, FiniteSets, TLC

VARIABLES
    variant,        \* "deploy" | "deployWithDependencies"
    fromParams,     \* deployWithDependencies: configuration passed as params
    input,          \* raw configuration values (action inputs / params)
    sourceExists,   \* the source directory exists
    listing,        \* entries directly under the source directory
    pc,             \* position of the run
    cfg,            \* resolved host, username, port, sourceDir, remoteDir
    privateKey,     \* value of the privateKey variable
    platform,       \* os.platform(), "" until it is read
    agent,          \* the ssh-agent process: alive, holds the key
    env,            \* process.env / processEnv entries
    agentInfo,      \* what startSshAgent returned ("undefined" before)
    fileCount,      \* result of getFileCount
    batchFileContent,
    batchFile,      \* <tmpdir>/sftp_batch on disk
    identityFile,   \* <tmpdir>/deploy_identity on disk
    sftpError,      \* the error caught at the sftp invocation
    outcome,        \* "running" | "resolved" | "rejected"
    error,          \* the error the run rejected with
    trace,          \* history of collaborator calls
    injected,       \* a processEnv object other than process.env was passed in
    realProcessEnv, \* process.env, which spawned child processes inherit
    asMain,         \* the file is run as the main module (require.main === module)
    processExit     \* exit code of the process once the main entry has settled

vars == <<variant, fromParams, input, sourceExists, listing, pc, cfg,
          privateKey, platform, agent, env, realProcessEnv, agentInfo, fileCount,
          batchFileContent, batchFile, identityFile, sftpError, outcome,
          error, trace, injected, realProcessEnv, asMain, processExit>>

----------------------------------------------------------------------------
(* Bounds of the explored inputs *)

MaxKeyLen == 2
MaxEntries == 2
MaxNested == 1
MaxSegs == 2

\* chunks the sftp client writes to stdout and stderr during one transfer
MaxChunks == 2

(* Program constants *)

IdentityMode == 384                       \* 0o600
DefaultPort == "22"
BatchFilePath == "/tmp/sftp_batch"        \* path.join(os.tmpdir(), 'sftp_batch')
IdentityFilePath == "/tmp/deploy_identity"

Chars == {"k", "\n"}
Keys == UNION {[1..n -> Chars] : n \in 0..MaxKeyLen}
Names == {"a", "b"}
Platforms == {"linux", "darwin", "win32"}

NoError == [msg |-> "", data |-> <<>>]

----------------------------------------------------------------------------
(* Events of the history *)

Ev(op, fn, arg, data, opt, res) ==
    [op |-> op, fn |-> fn, arg |-> arg, data |-> data, opt |-> opt, res |-> res]

\* a logging call: fn is the logging function, msg the fixed text, data the
\* interpolated or appended values, each tagged with the variable it is read from
Log(fn, msg, data) == Ev("log", fn, msg, data, "", "")

V(src, val) == [src |-> src, val |-> val]

Exec(fn, cmd, stdin, opt, res) == Ev("exec", fn, cmd, stdin, opt, res)

\* an Error object: message text and the values interpolated into it
Err(msg, data) == [msg |-> msg, data |-> data]

ErrV(e) == <<V("error", e.msg)>> \o e.data

----------------------------------------------------------------------------
(* Pure helpers *)

EndsWithNewline(k) == Len(k) > 0 /\ k[Len(k)] = "\n"

NormalizeKey_AlwaysAppend(k) == Append(k, "\n")

\* part_001 lines 122-126
NormalizeKey(k) == IF ~EndsWithNewline(k) THEN Append(k, "\n") ELSE k

\* path segments of the directories and names the model uses
Segments == {"", ".", "..", "src", "dist"}

PathSegs == UNION {[1..n -> Segments] : n \in 1..MaxSegs}

RECURSIVE JoinSegs(_, _)
\* segs.join('/') from position i on
JoinSegs(segs, i) ==
    IF i > Len(segs) THEN ""
    ELSE IF i = Len(segs) THEN segs[i]
    ELSE segs[i] \o "/" \o JoinSegs(segs, i + 1)

\* dir.split('/')
Split(dir) == CHOOSE segs \in PathSegs : JoinSegs(segs, 1) = dir

RECURSIVE NormalizeSegs(_, _, _, _)
\* path.normalize: empty and '.' segments are dropped, '..' removes the
\* segment before it (and stays when there is none in a relative path)
NormalizeSegs(segs, i, stack, abs) ==
    IF i > Len(segs) THEN stack
    ELSE IF segs[i] \in {"", "."} THEN NormalizeSegs(segs, i + 1, stack, abs)
    ELSE IF segs[i] = ".."
         THEN IF Len(stack) > 0 /\ stack[Len(stack)] # ".."
              THEN NormalizeSegs(segs, i + 1, SubSeq(stack, 1, Len(stack) - 1), abs)
              ELSE IF abs THEN NormalizeSegs(segs, i + 1, stack, abs)
              ELSE NormalizeSegs(segs, i + 1, Append(stack, ".."), abs)
    ELSE NormalizeSegs(segs, i + 1, Append(stack, segs[i]), abs)

PathJoin_Concat(dir, name) == dir \o "/" \o name

\* path.join(dir, name) for a name that is already normal (line 159)
PathJoin(dir, name) ==
    LET segs == Split(dir)
        abs == Len(segs) >= 2 /\ segs[1] = ""
    IN (IF abs THEN "/" ELSE "")
       \o JoinSegs(Append(NormalizeSegs(segs, 1, <<>>, abs), name), 1)

----------------------------------------------------------------------------
(* Inputs *)

DefaultInput ==
    [host |-> "h", username |-> "u", port |-> "2222", source_dir |-> "src",
     remote_dir |-> "/r", private_key |-> <<"k">>]

SourceDirs == {"./dist", "src/", "../dist"}

TextFields == {"host", "username", "port", "source_dir", "remote_dir"}

\* the default configuration with the key varied, or with one field left empty
Inputs ==
    {[DefaultInput EXCEPT !.private_key = k] : k \in Keys}
    \cup {[DefaultInput EXCEPT ![f] = ""] : f \in TextFields}
    \cup {[DefaultInput EXCEPT !.source_dir = d] : d \in SourceDirs}

Entries ==
    {[name |-> n, kind |-> "file", nested |-> 0] : n \in Names}
    \cup {[name |-> n, kind |-> "link", nested |-> 0] : n \in Names}
    \cup {[name |-> n, kind |-> "dir", nested |-> c] : n \in Names, c \in 0..MaxNested}

Listings ==
    {l \in UNION {[1..n -> Entries] : n \in 0..MaxEntries} :
        \A i, j \in 1..Len(l) : i # j => l[i].name # l[j].name}

DefaultListing ==
    <<[name |-> "a", kind |-> "file", nested |-> 0],
      [name |-> "b", kind |-> "dir", nested |-> 1]>>

MissingInput_HostOptional(inp) ==
    IF inp.username = "" THEN "username"
    ELSE IF inp.source_dir = "" THEN "source_dir"
    ELSE IF inp.remote_dir = "" THEN "remote_dir"
    ELSE IF inp.private_key = <<>> THEN "private_key"
    ELSE ""

\* core.getInput(name, { required: true }) throws on an empty value;
\* part_001 lines 115-120 (deploy), 249-254 (deployWithDependencies)
MissingInput(inp) ==
    IF inp.host = "" THEN "host"
    ELSE IF inp.username = "" THEN "username"
    ELSE IF inp.source_dir = "" THEN "source_dir"
    ELSE IF inp.remote_dir = "" THEN "remote_dir"
    ELSE IF inp.private_key = <<>> THEN "private_key"
    ELSE ""

InputError(name) == Err("Input required and not supplied", <<V("name", name)>>)

\* `core.getInput('port') || '22'` applies only when the value is read from
\* the inputs; a port passed as a param is taken as it is
ResolvedCfg(inp, viaParams) ==
    [host |-> inp.host, username |-> inp.username,
     port |-> IF ~viaParams /\ inp.port = "" THEN DefaultPort ELSE inp.port,
     sourceDir |-> inp.source_dir, remoteDir |-> inp.remote_dir]

NoCfg == [host |-> "", username |-> "", port |-> "", sourceDir |-> "", remoteDir |-> ""]

\* the process has not exited
NoExit == -1

NoFile == [exists |-> FALSE, content |-> <<>>, mode |-> 0]

\* a file left at the fixed path <tmpdir>/deploy_identity by something else,
\* readable by group and others (0o644)
StaleIdentityFile == [exists |-> TRUE, content |-> <<"x">>, mode |-> 420]

Init ==
    /\ variant \in {"deploy", "deployWithDependencies"}
    /\ fromParams \in BOOLEAN
    /\ variant = "deploy" => ~fromParams
    /\ input \in Inputs
    /\ sourceExists \in BOOLEAN
    /\ listing \in Listings
    /\ ~sourceExists => listing = <<>>
    /\ (input # DefaultInput) => (sourceExists /\ listing = DefaultListing)
    /\ pc = "start"
    /\ cfg = NoCfg
    /\ privateKey = <<>>
    /\ platform = ""
    /\ agent = [alive |-> FALSE, hasKey |-> FALSE]
    /\ env = [SSH_AUTH_SOCK |-> "", SSH_AGENT_PID |-> ""]
    /\ agentInfo = "undefined"
    /\ fileCount = 0
    /\ batchFileContent = <<>>
    /\ batchFile = [exists |-> FALSE, content |-> <<>>]
    /\ identityFile \in {NoFile, StaleIdentityFile}
    /\ (identityFile # NoFile) => (input = DefaultInput /\ listing = DefaultListing)
    /\ sftpError = NoError
    /\ outcome = "running"
    /\ error = NoError
    /\ trace = <<>>
    /\ injected \in BOOLEAN
    /\ injected => (variant = "deployWithDependencies" /\ identityFile = NoFile
                    /\ input = DefaultInput /\ listing = DefaultListing)
    /\ realProcessEnv = [SSH_AUTH_SOCK |-> "", SSH_AGENT_PID |-> ""]
    /\ asMain \in BOOLEAN
    /\ asMain => (variant = "deploy" /\ identityFile = NoFile
                  /\ input = DefaultInput /\ listing \in {<<>>, DefaultListing})
    /\ processExit = NoExit

----------------------------------------------------------------------------
(* Control transfer *)

\* the outer catch of deploy: part_001 lines 227-233 (477-483)
CatchEvents(e) ==
    <<Log("console.error", "Deployment failed with error:", ErrV(e)),
      Log("console.error", "Error stack trace:", ErrV(e))>>

Throw(tr, e) ==
    /\ trace' = tr \o CatchEvents(e)
    /\ outcome' = "rejected"
    /\ error' = e
    /\ pc' = "done"

Goto(tr, p) ==
    /\ trace' = tr
    /\ pc' = p
    /\ UNCHANGED <<outcome, error>>

ExecError(cmd) == Err("The process failed", <<V("command", cmd)>>)

----------------------------------------------------------------------------
(* checkAndInstallSshTools: part_001 lines 7-42 (269-304) *)

ToolsCatch(e) ==
    <<Log("core.error", "Failed to setup SSH tools", <<>>),
      Log("core.error", "", ErrV(e)),
      Ev("endGroup", "core", "", <<>>, "", "")>>

ToolsOk ==
    <<Log("core.info", "SSH tools are available", <<>>),
      Ev("endGroup", "core", "", <<>>, "", "")>>

ToolsBegin ==
    <<Ev("startGroup", "core", "Checking SSH tools", <<>>, "", ""),
      Log("core.info", "Checking if ssh-add is available...", <<>>)>>

\* entry of the run up to the first awaited call
Start ==
    /\ pc = "start"
    /\ UNCHANGED <<injected, asMain, processExit, variant, fromParams, input, sourceExists, listing, platform,
                   agent, env, realProcessEnv, agentInfo, fileCount, batchFileContent,
                   batchFile, identityFile, sftpError>>
    /\ IF variant = "deploy"
       THEN /\ Goto((IF asMain
                     THEN <<Log("console.log", "Running deploy.js directly", <<>>)>>
                     ELSE <<>>)
                    \o <<Log("console.log", "Starting deployment process...", <<>>)>>
                    \o ToolsBegin, "which")
            /\ UNCHANGED <<cfg, privateKey>>
       ELSE IF ~fromParams /\ MissingInput(input) # ""
            THEN \* the parameter defaults are evaluated outside the try block
                 /\ trace' = trace
                 /\ outcome' = "rejected"
                 /\ error' = InputError(MissingInput(input))
                 /\ pc' = "done"
                 /\ UNCHANGED <<cfg, privateKey>>
            ELSE /\ cfg' = ResolvedCfg(input, fromParams)
                 /\ privateKey' = input.private_key
                 /\ Goto(<<Log("console.log",
                               "Starting deployment process with injected dependencies...",
                               <<>>)>> \o ToolsBegin, "which")

WhichEv(r) == Exec("getExecOutput", "which ssh-add", <<>>, "ignoreReturnCode", r)

WhichSshAdd ==
    /\ pc = "which"
    /\ UNCHANGED <<injected, asMain, processExit, variant, fromParams, input, sourceExists, listing, cfg,
                   privateKey, agent, env, realProcessEnv, agentInfo, fileCount,
                   batchFileContent, batchFile, identityFile, sftpError>>
    /\ \E r \in {"exit0", "exit1", "reject"} :
        LET tr == Append(trace, WhichEv(r)) IN
        CASE r = "exit0" ->
                /\ Goto(tr \o ToolsOk, "validate")
                /\ UNCHANGED platform
          [] r = "reject" ->
                /\ Throw(tr \o ToolsCatch(ExecError("which")), ExecError("which"))
                /\ UNCHANGED platform
          [] r = "exit1" ->
                \E p \in Platforms :
                    LET tr1 == Append(tr, Log("core.info",
                                   "ssh-add not found, installing OpenSSH client...", <<>>))
                    IN
                    /\ platform' = p
                    /\ CASE p = "linux" -> Goto(tr1, "apt_update")
                         [] p = "darwin" ->
                              Goto(Append(tr1, Log("core.info",
                                   "On macOS, OpenSSH should be pre-installed", <<>>)),
                                   "verify")
                         [] p = "win32" ->
                              Goto(Append(tr1, Log("core.warning",
                                   "On Windows, please ensure OpenSSH is installed via Windows features",
                                   <<>>)), "verify")

AptUpdate ==
    /\ pc = "apt_update"
    /\ UNCHANGED <<injected, asMain, processExit, variant, fromParams, input, sourceExists, listing, cfg,
                   privateKey, platform, agent, env, realProcessEnv, agentInfo, fileCount,
                   batchFileContent, batchFile, identityFile, sftpError>>
    /\ \E r \in {"ok", "reject"} :
        LET tr == Append(trace, Exec("exec", "sudo apt-get update", <<>>, "", r)) IN
        IF r = "ok" THEN Goto(tr, "apt_install")
        ELSE Throw(tr \o ToolsCatch(ExecError("sudo")), ExecError("sudo"))

AptInstall ==
    /\ pc = "apt_install"
    /\ UNCHANGED <<injected, asMain, processExit, variant, fromParams, input, sourceExists, listing, cfg,
                   privateKey, platform, agent, env, realProcessEnv, agentInfo, fileCount,
                   batchFileContent, batchFile, identityFile, sftpError>>
    /\ \E r \in {"ok", "reject"} :
        LET tr == Append(trace, Exec("exec", "sudo apt-get install -y openssh-client",
                                     <<>>, "", r)) IN
        IF r = "ok" THEN Goto(tr, "verify")
        ELSE Throw(tr \o ToolsCatch(ExecError("sudo")), ExecError("sudo"))

VerifyError == Err("Failed to install or locate ssh-add after installation attempt", <<>>)

VerifySshAdd_Unchecked ==
    /\ pc = "verify"
    /\ UNCHANGED <<injected, asMain, processExit, variant, fromParams, input, sourceExists, listing, cfg,
                   privateKey, platform, agent, env, realProcessEnv, agentInfo, fileCount,
                   batchFileContent, batchFile, identityFile, sftpError>>
    /\ \E r \in {"exit0", "exit1", "reject"} :
        LET tr == Append(trace, WhichEv(r)) IN
        CASE r \in {"exit0", "exit1"} -> Goto(tr \o ToolsOk, "validate")
          [] r = "reject" -> Throw(tr \o ToolsCatch(ExecError("which")), ExecError("which"))

\* lines 29-33: the verification after the installation attempt
VerifySshAdd ==
    /\ pc = "verify"
    /\ UNCHANGED <<injected, asMain, processExit, variant, fromParams, input, sourceExists, listing, cfg,
                   privateKey, platform, agent, env, realProcessEnv, agentInfo, fileCount,
                   batchFileContent, batchFile, identityFile, sftpError>>
    /\ \E r \in {"exit0", "exit1", "reject"} :
        LET tr == Append(trace, WhichEv(r)) IN
        CASE r = "exit0" -> Goto(tr \o ToolsOk, "validate")
          [] r = "exit1" -> Throw(tr \o ToolsCatch(VerifyError), VerifyError)
          [] r = "reject" -> Throw(tr \o ToolsCatch(ExecError("which")), ExecError("which"))

----------------------------------------------------------------------------
(* Input validation and key masking: part_001 lines 113-142 (308-324) *)

MaskedValue_Raw(raw, key) == raw

\* the value handed to core.setSecret: the privateKey variable, which in deploy
\* has been normalized before (line 129, line 312)
MaskedValue(raw, key) == key

ConfigMessage_LogsKey(c, key) ==
    Log("console.log", "Configuration validated:",
        <<V("host", c.host), V("username", c.username), V("port", c.port),
          V("sourceDir", c.sourceDir), V("remoteDir", c.remoteDir),
          V("privateKey", key)>>)

\* lines 131-137 (314-320): only the length of the key is interpolated
ConfigMessage(c, key) ==
    Log("console.log", "Configuration validated:",
        <<V("host", c.host), V("username", c.username), V("port", c.port),
          V("sourceDir", c.sourceDir), V("remoteDir", c.remoteDir),
          V("privateKey.length", Len(key))>>)

AgentCatch(e) ==
    <<Log("core.error", "Failed to setup SSH agent", <<>>),
      Log("core.error", "", ErrV(e)),
      Ev("endGroup", "core", "", <<>>, "", "")>>

KeyRequired == Err("Private key is required", <<>>)

\* from the masking of the key up to the call of `ssh-agent -s`
MaskAndBeginAgent(tr, c, raw, key) ==
    LET tr1 == tr \o <<Ev("setSecret", "core", "", MaskedValue(raw, key), "", ""),
                       ConfigMessage(c, key),
                       Log("console.log", "Starting SSH agent...", <<>>),
                       Ev("startGroup", "core", "Setting up SSH Agent", <<>>, "", "")>>
    IN IF key = <<>>
       THEN Throw(tr1 \o AgentCatch(KeyRequired), KeyRequired)
       ELSE Goto(Append(tr1, Log("core.info", "Starting ssh-agent process...", <<>>)),
                 "agent_start")

Validate ==
    /\ pc = "validate"
    /\ UNCHANGED <<injected, asMain, processExit, variant, fromParams, input, sourceExists, listing, platform,
                   agent, env, realProcessEnv, agentInfo, fileCount, batchFileContent,
                   batchFile, identityFile, sftpError>>
    /\ LET tr == Append(trace, Log("console.log", "Validating input parameters...", <<>>)) IN
       IF variant = "deploy"
       THEN IF MissingInput(input) # ""
            THEN /\ Throw(tr, InputError(MissingInput(input)))
                 /\ UNCHANGED <<cfg, privateKey>>
            ELSE LET key == NormalizeKey(input.private_key)
                     c == ResolvedCfg(input, FALSE)
                     tr1 == IF key # input.private_key
                            THEN Append(tr, Log("console.log",
                                     "Added missing newline to private key", <<>>))
                            ELSE tr
                 IN /\ cfg' = c
                    /\ privateKey' = key
                    /\ MaskAndBeginAgent(tr1, c, input.private_key, key)
       ELSE /\ UNCHANGED <<cfg, privateKey>>
            /\ MaskAndBeginAgent(tr, cfg, input.private_key, privateKey)

----------------------------------------------------------------------------
(* startSshAgent: part_001 lines 44-93 (326-375) *)

\* stdout of `ssh-agent -s`, cut into the tokens the two patterns distinguish
AgentOutputs ==
    { <<>>,
      <<"SSH_AUTH_SOCK=", "/tmp/agent.1234", ";", " export SSH_AUTH_SOCK", ";", "\n",
        "SSH_AGENT_PID=", "1234", ";", " export SSH_AGENT_PID", ";", "\n">>,
      <<"SSH_AGENT_PID=", ";", "SSH_AUTH_SOCK=", "/s", "\n">>,
      <<"SSH_AUTH_SOCK=", "/s", ";">>,
      <<"SSH_AGENT_PID=", "7", ";">>,
      <<"Agent pid 7", ";">> }

Capture_WholeMatch(out, i) ==
    out[i - 1] \o (IF i > Len(out) \/ out[i] = ";" THEN "" ELSE out[i])

RECURSIVE Capture(_, _)
\* the group ([^;]*): everything up to the next ';' or the end
Capture(out, i) ==
    IF i > Len(out) \/ out[i] = ";" THEN ""
    ELSE out[i] \o Capture(out, i + 1)

Match_Lenient(out, name) ==
    LET idx == {i \in 1..Len(out) : out[i] = name} IN
    IF idx = {} THEN [found |-> TRUE, val |-> ""]
    ELSE [found |-> TRUE,
          val |-> Capture(out, (CHOOSE i \in idx : \A j \in idx : i <= j) + 1)]

\* stdout.match(/NAME=([^;]*)/): lines 59-60
Match(out, name) ==
    LET idx == {i \in 1..Len(out) : out[i] = name} IN
    IF idx = {} THEN [found |-> FALSE, val |-> ""]
    ELSE [found |-> TRUE,
          val |-> Capture(out, (CHOOSE i \in idx : \A j \in idx : i <= j) + 1)]

NoOutput == Err("Failed to get ssh-agent output", <<>>)
ParseError == Err("Failed to parse ssh-agent output", <<>>)

AgentStartEv(r) == Exec("getExecOutput", "ssh-agent -s", <<>>, "", r)

StartAgent ==
    /\ pc = "agent_start"
    /\ UNCHANGED <<injected, asMain, processExit, variant, fromParams, input, sourceExists, listing, cfg,
                   privateKey, platform, agentInfo, fileCount,
                   batchFileContent, batchFile, identityFile, sftpError>>
    /\ \/ \* the process cannot be started or exits non-zero
          /\ Throw(Append(trace, AgentStartEv("reject")) \o AgentCatch(ExecError("ssh-agent")),
                   ExecError("ssh-agent"))
          /\ UNCHANGED <<agent, env, realProcessEnv>>
       \/ \E out \in AgentOutputs :
            LET tr == trace \o <<AgentStartEv("ok"),
                                 Log("core.info", "ssh-agent output:", <<V("agentInfo", out)>>)>>
                sock == Match(out, "SSH_AUTH_SOCK=")
                pid == Match(out, "SSH_AGENT_PID=")
            IN
            /\ agent' = [alive |-> TRUE, hasKey |-> FALSE]
            /\ IF out = <<>>
               THEN /\ Throw(tr \o AgentCatch(NoOutput), NoOutput)
                    /\ UNCHANGED <<env, realProcessEnv>>
               ELSE IF ~sock.found \/ ~pid.found
               THEN /\ Throw(tr \o AgentCatch(ParseError), ParseError)
                    /\ UNCHANGED <<env, realProcessEnv>>
               ELSE /\ env' = [SSH_AUTH_SOCK |-> sock.val, SSH_AGENT_PID |-> pid.val]
                    /\ realProcessEnv' = IF injected THEN realProcessEnv ELSE env'
                    /\ Goto(tr \o <<Ev("setenv", "processEnv", "SSH_AUTH_SOCK", sock.val, "", ""),
                                    Ev("setenv", "processEnv", "SSH_AGENT_PID", pid.val, "", ""),
                                    Log("core.info", "SSH Agent started with PID:",
                                        <<V("agentPid", pid.val)>>),
                                    Log("core.info", "Adding SSH key to agent...", <<>>)>>,
                            "ssh_add")

\* @actions/exec spawns with options.env || process.env; no env option is passed
ChildEnvEv(cmd) == Ev("spawn", "child_process", cmd, realProcessEnv, "", "")

SshAddEv(key, r) == Exec("getExecOutput", "ssh-add -", key, "silent", r)

SshAdd ==
    /\ pc = "ssh_add"
    /\ UNCHANGED <<injected, asMain, processExit, variant, fromParams, input, sourceExists, listing, cfg,
                   privateKey, platform, env, realProcessEnv, fileCount, batchFileContent,
                   batchFile, identityFile, sftpError>>
    /\ \/ /\ Throw(trace \o <<ChildEnvEv("ssh-add -"), SshAddEv(privateKey, "reject")>>
                       \o AgentCatch(ExecError("ssh-add")), ExecError("ssh-add"))
          /\ UNCHANGED <<agent, agentInfo>>
       \/ /\ agent' = [agent EXCEPT !.hasKey = agent.alive]
          /\ agentInfo' = "cleanupFn"
          /\ Goto(trace \o <<ChildEnvEv("ssh-add -"), SshAddEv(privateKey, "ok"),
                             Log("core.info", "SSH key added successfully", <<>>),
                             Ev("endGroup", "core", "", <<>>, "", ""),
                             Log("console.log", "SSH agent started successfully:",
                                 <<V("agentInfo", "cleanupFn")>>),
                             Log("console.log", "Creating SFTP batch file...", <<>>)>>,
                  "count")

----------------------------------------------------------------------------
(* getFileCount: part_001 lines 95-105 (385-395) *)

RECURSIVE NestedPaths(_, _)
NestedPaths(dir, n) ==
    IF n = 0 THEN <<>>
    ELSE Append(NestedPaths(dir, n - 1), [path |-> dir \o "/" \o "f", isFile |-> TRUE])

RECURSIVE RecursivePaths(_, _)
\* fs.readdirSync(directory, { recursive: true }) with what statSync answers
\* for each path; statSync follows symbolic links
RecursivePaths(l, i) ==
    IF i > Len(l) THEN <<>>
    ELSE <<[path |-> l[i].name, isFile |-> l[i].kind \in {"file", "link"}]>>
         \o NestedPaths(l[i].name, l[i].nested)
         \o RecursivePaths(l, i + 1)

CountFiles_AtMostOne(paths, i) ==
    IF \E j \in i..Len(paths) : paths[j].isFile THEN 1 ELSE 0

RECURSIVE CountFiles(_, _)
\* lines 96-103: the entries for which statSync(...).isFile() holds
CountFiles(paths, i) ==
    IF i > Len(paths) THEN 0
    ELSE (IF paths[i].isFile THEN 1 ELSE 0) + CountFiles(paths, i + 1)

StatEvents(dir, paths) ==
    [i \in 1..Len(paths) |->
        Ev("statSync", "fs", PathJoin(dir, paths[i].path), <<>>, "", "ok")]

FsError(call) == Err("ENOENT: no such file or directory", <<V("syscall", call)>>)

GetFileCount ==
    /\ pc = "count"
    /\ UNCHANGED <<injected, asMain, processExit, variant, fromParams, input, sourceExists, listing, cfg,
                   privateKey, platform, agent, env, realProcessEnv, agentInfo,
                   batchFileContent, batchFile, identityFile, sftpError>>
    /\ IF ~sourceExists
       THEN /\ Throw(Append(trace, Ev("readdirSync", "fs", cfg.sourceDir, <<>>,
                                      "recursive", "throw")), FsError("scandir"))
            /\ UNCHANGED fileCount
       ELSE LET paths == RecursivePaths(listing, 1)
                n == CountFiles(paths, 1)
            IN /\ fileCount' = n
               /\ Goto(Append(trace, Ev("readdirSync", "fs", cfg.sourceDir, <<>>,
                                        "recursive", "ok"))
                       \o StatEvents(cfg.sourceDir, paths)
                       \o <<Log("console.log", "Found files to transfer in source directory",
                                <<V("fileCount", n)>>)>>,
                       "list")

----------------------------------------------------------------------------
(* The batch script: part_001 lines 150-167 (400-417) *)

\* one newline-terminated line of the script: an optional '-' prefix, the
\* command, its arguments as written, and for a put the entry it transfers
BatchLine(prefix, cmd, text, name) ==
    [prefix |-> prefix, cmd |-> cmd, text |-> text, name |-> name]

RenderLine(ln) == ln.prefix \o ln.cmd \o " " \o ln.text \o "\n"

RECURSIVE Render(_, _)
\* the text of the script
Render(lines, i) ==
    IF i > Len(lines) THEN ""
    ELSE RenderLine(lines[i]) \o Render(lines, i + 1)

PutLines_Unfiltered(dir, l, i) ==
    [j \in 1..Len(l) |->
        BatchLine("", "put", "\"" \o PathJoin(dir, l[j].name) \o "\" \""
                             \o l[j].name \o "\"", l[j].name)]

RECURSIVE PutLines(_, _, _)
\* lines 157-163: one put per Dirent for which isFile() holds, in listing order
PutLines(dir, l, i) ==
    IF i > Len(l) THEN <<>>
    ELSE (IF l[i].kind = "file"
          THEN <<BatchLine("", "put", "\"" \o PathJoin(dir, l[i].name) \o "\" \""
                                       \o l[i].name \o "\"", l[i].name)>>
          ELSE <<>>)
         \o PutLines(dir, l, i + 1)

BatchContent_NoDash(remoteDir, dir, l) ==
    <<BatchLine("", "mkdir", remoteDir, ""), BatchLine("", "cd", remoteDir, "")>>
    \o PutLines(dir, l, 1)

\* lines 152-163; the text is kept as its sequence of lines
BatchContent(remoteDir, dir, l) ==
    <<BatchLine("-", "mkdir", remoteDir, ""), BatchLine("", "cd", remoteDir, "")>>
    \o PutLines(dir, l, 1)

ListFiles ==
    /\ pc = "list"
    /\ UNCHANGED <<injected, asMain, processExit, variant, fromParams, input, sourceExists, listing, cfg,
                   privateKey, platform, agent, env, realProcessEnv, agentInfo, fileCount,
                   batchFile, identityFile, sftpError>>
    /\ \/ \* the listing fails (the directory is unreadable by now)
          /\ Throw(Append(trace, Ev("readdirSync", "fs", cfg.sourceDir, <<>>,
                                    "withFileTypes", "throw")), FsError("scandir"))
          /\ UNCHANGED batchFileContent
       \/ /\ batchFileContent' = BatchContent(cfg.remoteDir, cfg.sourceDir, listing)
          /\ Goto(Append(trace, Ev("readdirSync", "fs", cfg.sourceDir, <<>>,
                                   "withFileTypes", "ok")), "write_batch")

WriteError == Err("EACCES: permission denied", <<V("syscall", "open")>>)

WriteBatch_Unchecked ==
    /\ pc = "write_batch"
    /\ UNCHANGED <<injected, asMain, processExit, variant, fromParams, input, sourceExists, listing, cfg,
                   privateKey, platform, agent, env, realProcessEnv, agentInfo, fileCount,
                   batchFileContent, identityFile, sftpError>>
    /\ \E r \in {"ok", "reject"} :
        /\ batchFile' = IF r = "ok" THEN [exists |-> TRUE, content |-> batchFileContent]
                        ELSE batchFile
        /\ Goto(trace \o <<Ev("writeFile", "fs", BatchFilePath, Render(batchFileContent, 1),
                              "", r),
                           Log("console.log", "Preparing SFTP command...", <<>>)>>,
                "write_identity")

\* lines 165-168: a failed write of the script rejects the run
WriteBatch ==
    /\ pc = "write_batch"
    /\ UNCHANGED <<injected, asMain, processExit, variant, fromParams, input, sourceExists, listing, cfg,
                   privateKey, platform, agent, env, realProcessEnv, agentInfo, fileCount,
                   batchFileContent, identityFile, sftpError>>
    /\ \/ /\ Throw(Append(trace, Ev("writeFile", "fs", BatchFilePath,
                                    Render(batchFileContent, 1), "", "reject")), WriteError)
          /\ UNCHANGED batchFile
       \/ /\ batchFile' = [exists |-> TRUE, content |-> batchFileContent]
          /\ Goto(trace \o <<Ev("writeFile", "fs", BatchFilePath, Render(batchFileContent, 1),
                                "", "ok"),
                             Log("console.log", "SFTP batch file created successfully at:",
                                 <<V("batchFilePath", BatchFilePath)>>),
                             Log("console.log", "Batch file contents:",
                                 <<V("batchFileContent", Render(batchFileContent, 1))>>),
                             Log("console.log", "Preparing SFTP command...", <<>>)>>,
                  "write_identity")

----------------------------------------------------------------------------
(* The transfer: part_001 lines 169-207 (419-457) *)

SftpCommand_AgentAuth(c) ==
    "sftp -b " \o BatchFilePath \o " -P " \o c.port
    \o " " \o c.username \o "@" \o c.host

\* line 178
SftpCommand(c) ==
    "sftp -v -o StrictHostKeyChecking=no -o UserKnownHostsFile=/dev/null -i "
    \o IdentityFilePath \o " -b " \o BatchFilePath \o " -P " \o c.port
    \o " " \o c.username \o "@" \o c.host

WriteIdentity ==
    /\ pc = "write_identity"
    /\ UNCHANGED <<injected, asMain, processExit, variant, fromParams, input, sourceExists, listing, cfg,
                   privateKey, platform, agent, env, realProcessEnv, agentInfo, fileCount,
                   batchFileContent, batchFile, sftpError>>
    /\ \/ /\ Throw(Append(trace, Ev("writeFile", "fs", IdentityFilePath, privateKey,
                                    "mode=0600", "reject")), WriteError)
          /\ UNCHANGED identityFile
       \/ \* the mode option applies when the file is created
          /\ identityFile' = [exists |-> TRUE, content |-> privateKey,
                              mode |-> IF identityFile.exists THEN identityFile.mode
                                       ELSE IdentityMode]
          /\ Goto(trace \o <<Ev("writeFile", "fs", IdentityFilePath, privateKey,
                                "mode=0600", "ok"),
                             Log("console.log", "Identity file created at:",
                                 <<V("identityFile", IdentityFilePath)>>),
                             Log("console.log", "Executing SFTP command:",
                                 <<V("sftpCommand", SftpCommand(cfg))>>),
                             Log("console.log", "Starting file transfer...", <<>>)>>,
                  "sftp")

SftpEv(c, r) == Exec("getExecOutput", SftpCommand(c), <<>>, "", r)

SftpCatch_Rethrow(tr, e) ==
    /\ sftpError' = e
    /\ Throw(Append(tr, Log("console.error", "SFTP command failed:", ErrV(e))), e)

\* catch (sftpError), lines 197-198: the identity file is unlinked before the
\* error is thrown again
SftpCatch(tr, e) ==
    /\ sftpError' = e
    /\ Goto(Append(tr, Log("console.error", "SFTP command failed:", ErrV(e))),
            "unlink_identity_err")

SftpResolved_SkipsUnlink(tr, exitCode, stderr) ==
    /\ UNCHANGED sftpError
    /\ Goto(tr \o <<Log("console.log", "SFTP command output:", <<V("stdout", "")>>),
                     Log("console.log", "SFTP transfer completed with exit code:",
                         <<V("exitCode", exitCode)>>)>>,
            "unlink_batch")

\* lines 184-188: the result is logged, its exit code is not inspected
SftpResolved(tr, exitCode, stderr) ==
    /\ UNCHANGED sftpError
    /\ Goto(tr \o <<Log("console.log", "SFTP command output:", <<V("stdout", "")>>)>>
               \o (IF stderr # ""
                   THEN <<Log("console.warn", "SFTP command stderr:", <<V("stderr", stderr)>>)>>
                   ELSE <<>>)
               \o <<Log("console.log", "SFTP transfer completed with exit code:",
                        <<V("exitCode", exitCode)>>)>>,
            "unlink_identity")

RECURSIVE RunBatch(_, _, _, _)
\* sftp -b: the lines are executed in order; the first failing line that has no
\* '-' prefix ends the run with a non-zero status
RunBatch(lines, failing, i, executed) ==
    IF i > Len(lines) THEN [executed |-> executed, status |-> 0]
    ELSE LET ok == i \notin failing
             ex == Append(executed, [line |-> i, cmd |-> lines[i].cmd,
                                     name |-> lines[i].name, ok |-> ok])
         IN IF ~ok /\ lines[i].prefix # "-"
            THEN [executed |-> ex, status |-> 1]
            ELSE RunBatch(lines, failing, i + 1, ex)

\* what the client did on the server
RemoteEv(run) ==
    Ev("batch", "sftp", BatchFilePath, run.executed, "",
       IF run.status = 0 THEN "exit0" ELSE "exit1")

Sftp ==
    /\ pc = "sftp"
    /\ UNCHANGED <<injected, asMain, processExit, variant, fromParams, input, sourceExists, listing, cfg,
                   privateKey, platform, agent, env, realProcessEnv, agentInfo, fileCount,
                   batchFileContent, batchFile, identityFile>>
    /\ \/ \* the exec layer rejects: non-zero exit status or spawn failure
          SftpCatch(Append(trace, SftpEv(cfg, "reject")), ExecError("sftp"))
       \/ \* the exec layer resolves with the exit code in the result
          \E exitCode \in {0, 1}, stderr \in {"", "Connection refused"} :
            SftpResolved(Append(trace, SftpEv(cfg, IF exitCode = 0 THEN "exit0" ELSE "exit1")),
                         exitCode, stderr)
       \/ \* the client connects and runs the batch script
          \E mkdirFails \in BOOLEAN, failAt \in {0} \cup 2..Len(batchFile.content) :
            LET run == RunBatch(batchFile.content,
                                (IF mkdirFails THEN {1} ELSE {}) \cup {failAt}, 1, <<>>)
            IN IF run.status = 0
               THEN SftpResolved(trace \o <<SftpEv(cfg, "exit0"), RemoteEv(run)>>, 0,
                                 IF mkdirFails THEN "Couldn't create directory" ELSE "")
               ELSE SftpCatch(trace \o <<SftpEv(cfg, "reject"), RemoteEv(run)>>,
                              ExecError("sftp"))

UnlinkIdentity_Masking ==
    /\ pc \in {"unlink_identity", "unlink_identity_err"}
    /\ UNCHANGED <<injected, asMain, processExit, variant, fromParams, input, sourceExists, listing, cfg,
                   privateKey, platform, agent, env, realProcessEnv, agentInfo, fileCount,
                   batchFileContent, batchFile, sftpError>>
    /\ \E r \in {"ok", "reject"} :
        LET tr == Append(trace, Ev("unlink", "fs", IdentityFilePath, <<>>, "", r)) IN
        /\ identityFile' = IF r = "ok" THEN NoFile ELSE identityFile
        /\ IF r = "reject"
           THEN Throw(tr, FsError("unlink"))
           ELSE IF pc = "unlink_identity_err"
           THEN Throw(Append(tr, Log("console.log", "Temporary identity file deleted", <<>>)),
                      sftpError)
           ELSE Goto(tr \o <<Log("console.log", "Temporary identity file deleted", <<>>),
                             Log("console.log", "Starting cleanup process...", <<>>)>>,
                     "unlink_batch")

\* lines 189-195 after a transfer that resolved, lines 198-205 in the catch
UnlinkIdentity ==
    /\ pc \in {"unlink_identity", "unlink_identity_err"}
    /\ UNCHANGED <<injected, asMain, processExit, variant, fromParams, input, sourceExists, listing, cfg,
                   privateKey, platform, agent, env, realProcessEnv, agentInfo, fileCount,
                   batchFileContent, batchFile, sftpError>>
    /\ \E r \in {"ok", "reject"} :
        LET tr == trace \o <<Ev("unlink", "fs", IdentityFilePath, <<>>, "", r),
                             IF r = "ok"
                             THEN Log("console.log", "Temporary identity file deleted", <<>>)
                             ELSE Log("console.warn", "Error deleting temporary identity file:",
                                      ErrV(FsError("unlink")))>>
        IN
        /\ identityFile' = IF r = "ok" THEN NoFile ELSE identityFile
        /\ IF pc = "unlink_identity_err"
           THEN Throw(tr, sftpError)
           ELSE Goto(Append(tr, Log("console.log", "Starting cleanup process...", <<>>)),
                     "unlink_batch")

----------------------------------------------------------------------------
(* Cleanup on the success path: part_001 lines 209-226 (459-476) *)

UnlinkBatch_Throws ==
    /\ pc = "unlink_batch"
    /\ UNCHANGED <<injected, asMain, processExit, variant, fromParams, input, sourceExists, listing, cfg,
                   privateKey, platform, agent, env, realProcessEnv, agentInfo, fileCount,
                   batchFileContent, identityFile, sftpError>>
    /\ \E r \in {"ok", "reject"} :
        /\ batchFile' = IF r = "ok" THEN [exists |-> FALSE, content |-> <<>>] ELSE batchFile
        /\ IF r = "ok"
           THEN Goto(trace \o <<Ev("unlink", "fs", BatchFilePath, <<>>, "", r),
                                Log("console.log", "Batch file deleted successfully", <<>>)>>,
                     "kill_agent")
           ELSE Throw(Append(trace, Ev("unlink", "fs", BatchFilePath, <<>>, "", r)),
                      FsError("unlink"))

\* lines 209-216: a failure is a warning
UnlinkBatch ==
    /\ pc = "unlink_batch"
    /\ UNCHANGED <<injected, asMain, processExit, variant, fromParams, input, sourceExists, listing, cfg,
                   privateKey, platform, agent, env, realProcessEnv, agentInfo, fileCount,
                   batchFileContent, identityFile, sftpError>>
    /\ \E r \in {"ok", "reject"} :
        /\ batchFile' = IF r = "ok" THEN [exists |-> FALSE, content |-> <<>>] ELSE batchFile
        /\ Goto(trace \o <<Ev("unlink", "fs", BatchFilePath, <<>>, "", r),
                           IF r = "ok"
                           THEN Log("console.log", "Batch file deleted successfully", <<>>)
                           ELSE Log("console.warn", "Error deleting batch file:",
                                    ErrV(FsError("unlink")))>>,
                "kill_agent")

KillAgent_HangsOnFailure ==
    /\ pc = "kill_agent"
    /\ UNCHANGED <<injected, asMain, processExit, variant, fromParams, input, sourceExists, listing, cfg,
                   privateKey, platform, env, realProcessEnv, agentInfo, fileCount,
                   batchFileContent, batchFile, identityFile, sftpError>>
    /\ \E r \in {"ok", "reject"} :
        /\ agent' = IF r = "ok" THEN [alive |-> FALSE, hasKey |-> FALSE] ELSE agent
        /\ trace' = trace \o <<ChildEnvEv("ssh-agent -k"),
                               Exec("exec", "ssh-agent -k", <<>>, "", r)>>
        /\ outcome' = IF r = "ok" THEN "resolved" ELSE outcome
        /\ pc' = IF r = "ok" THEN "done" ELSE "kill_agent_pending"
        /\ UNCHANGED error

KillAgent ==
    /\ pc = "kill_agent"
    /\ UNCHANGED <<injected, asMain, processExit, variant, fromParams, input, sourceExists, listing, cfg,
                   privateKey, platform, env, realProcessEnv, agentInfo, fileCount,
                   batchFileContent, batchFile, identityFile, sftpError>>
    /\ \E r \in {"ok", "reject"} :
        /\ agent' = IF r = "ok" THEN [alive |-> FALSE, hasKey |-> FALSE] ELSE agent
        /\ trace' = trace \o <<ChildEnvEv("ssh-agent -k"),
                               Exec("exec", "ssh-agent -k", <<>>, "", r),
                               IF r = "ok"
                               THEN Log("console.log", "SSH agent killed successfully", <<>>)
                               ELSE Log("console.warn", "Error killing SSH agent:",
                                        ErrV(ExecError("ssh-agent"))),
                               Log("console.log", "Deployment completed successfully!", <<>>)>>
        /\ outcome' = "resolved"
        /\ pc' = "done"
        /\ UNCHANGED error

----------------------------------------------------------------------------
(* Main entry: part_001 lines 487-496 *)

ExitStatus_AlwaysZero(result) == 0

\* the catch handler calls process.exit(1); after the then handler the process
\* ends with the default status
ExitStatus(result) == IF result = "rejected" THEN 1 ELSE 0

MainSettled ==
    /\ pc = "done"
    /\ asMain
    /\ processExit = NoExit
    /\ processExit' = ExitStatus(outcome)
    /\ trace' = Append(trace,
                       IF outcome = "rejected"
                       THEN Log("console.error", "Deployment failed:", ErrV(error))
                       ELSE Log("console.log", "Deployment completed successfully", <<>>))
    /\ UNCHANGED <<injected, asMain, variant, fromParams, input, sourceExists, listing, pc, cfg,
                   privateKey, platform, agent, env, realProcessEnv, agentInfo, fileCount,
                   batchFileContent, batchFile, identityFile, sftpError, outcome,
                   error>>

----------------------------------------------------------------------------

Next ==
    \/ Start
    \/ WhichSshAdd
    \/ AptUpdate
    \/ AptInstall
    \/ VerifySshAdd
    \/ Validate
    \/ StartAgent
    \/ SshAdd
    \/ GetFileCount
    \/ ListFiles
    \/ WriteBatch
    \/ WriteIdentity
    \/ Sftp
    \/ UnlinkIdentity
    \/ UnlinkBatch
    \/ KillAgent
    \/ MainSettled

Spec == Init /\ [][Next]_vars

\* every awaited call eventually returns or fails: the step that is waiting
\* for it is eventually taken
LiveSpec == Init /\ [][Next]_vars /\ WF_vars(Next)

----------------------------------------------------------------------------
(* The legacy variant: src/src/deploy.js lines 329-513 *)

\* lines 389-394: host, username and private-key are required
LegacyMissingInput(inp) ==
    IF inp.host = "" THEN "host"
    ELSE IF inp.username = "" THEN "username"
    ELSE IF inp.private_key = <<>> THEN "private-key"
    ELSE ""

LegacySourceDir == "./dist"
LegacyRemoteDir == "/var/www/html"

\* lines 391-393: the defaults of the optional inputs
LegacyCfg(inp) ==
    [host |-> inp.host, username |-> inp.username,
     port |-> IF inp.port = "" THEN DefaultPort ELSE inp.port,
     sourceDir |-> IF inp.source_dir = "" THEN LegacySourceDir ELSE inp.source_dir,
     remoteDir |-> IF inp.remote_dir = "" THEN LegacyRemoteDir ELSE inp.remote_dir]

LegacyInit ==
    /\ variant = "legacy"
    /\ fromParams = FALSE
    /\ asMain = FALSE
    /\ injected = FALSE
    /\ realProcessEnv = [SSH_AUTH_SOCK |-> "", SSH_AGENT_PID |-> ""]
    /\ processExit = NoExit
    /\ input \in Inputs
    /\ sourceExists \in BOOLEAN
    /\ listing \in Listings
    /\ ~sourceExists => listing = <<>>
    /\ (input # DefaultInput) => (sourceExists /\ listing = DefaultListing)
    /\ pc = "legacy_start"
    /\ cfg = NoCfg
    /\ privateKey = <<>>
    /\ platform = ""
    /\ agent = [alive |-> FALSE, hasKey |-> FALSE]
    /\ env = [SSH_AUTH_SOCK |-> "", SSH_AGENT_PID |-> ""]
    /\ agentInfo = "null"
    /\ fileCount = 0
    /\ batchFileContent = <<>>
    /\ batchFile = [exists |-> FALSE, content |-> <<>>]
    /\ identityFile = NoFile
    /\ sftpError = NoError
    /\ outcome = "running"
    /\ error = NoError
    /\ trace = <<>>

\* lines 482-484
LegacyCatch(e) ==
    <<Log("core.error", "Deployment failed", <<>>),
      Ev("setFailed", "core", e.msg, e.data, "", "")>>

LegacyFinally_SkipsCleanup(tr, cleanup) ==
    /\ trace' = tr
    /\ pc' = "done"
    /\ outcome' = "resolved"

\* lines 485-497: the agent is cleaned up only when startSshAgent returned
LegacyFinally(tr, cleanup) ==
    IF cleanup
    THEN /\ trace' = Append(tr, Ev("startGroup", "core", "Cleaning up SSH agent", <<>>, "", ""))
         /\ pc' = "legacy_kill"
         /\ UNCHANGED outcome
    ELSE /\ trace' = tr
         /\ pc' = "done"
         /\ outcome' = "resolved"

LegacyFail_Rethrow(tr, e, cleanup) ==
    /\ error' = e
    /\ trace' = tr
    /\ pc' = "done"
    /\ outcome' = "rejected"

\* an error thrown inside the try block of deploy
LegacyFail(tr, e, cleanup) ==
    /\ error' = e
    /\ LegacyFinally(tr \o LegacyCatch(e), cleanup)

SourceMissing(dir) == Err("Source directory does not exist", <<V("sourceDir", dir)>>)

SourceCheck_Skipped(exists) == TRUE

\* line 405: fs.existsSync(sourceDir)
SourceCheck(exists) == exists

\* lines 380-414: from the entry of deploy to the call of `ssh-agent -s`
LegacyStart ==
    /\ pc = "legacy_start"
    /\ UNCHANGED <<injected, asMain, processExit, variant, fromParams, input, sourceExists, listing,
                   platform, agent, env, realProcessEnv, agentInfo, batchFileContent, batchFile,
                   identityFile, sftpError>>
    /\ LET tr == <<Log("core.info", "Starting SFTP deployment...", <<>>),
                   Ev("startGroup", "core", "Validating inputs", <<>>, "", "")>>
       IN
       IF LegacyMissingInput(input) # ""
       THEN /\ LegacyFail(tr, InputError(LegacyMissingInput(input)), FALSE)
            /\ UNCHANGED <<cfg, privateKey, fileCount>>
       ELSE LET c == LegacyCfg(input)
                tr1 == tr \o <<Ev("setSecret", "core", "", input.private_key, "", ""),
                               Log("core.info", "Host:", <<V("host", c.host)>>),
                               Log("core.info", "Username:", <<V("username", c.username)>>),
                               Log("core.info", "Port:", <<V("port", c.port)>>),
                               Log("core.info", "Source directory:",
                                   <<V("sourceDir", c.sourceDir)>>),
                               Log("core.info", "Remote directory:",
                                   <<V("remoteDir", c.remoteDir)>>),
                               Ev("existsSync", "fs", c.sourceDir, <<>>, "",
                                  IF sourceExists THEN "true" ELSE "false")>>
            IN
            /\ cfg' = c
            /\ privateKey' = input.private_key
            /\ IF ~SourceCheck(sourceExists)
               THEN /\ LegacyFail(tr1, SourceMissing(c.sourceDir), FALSE)
                    /\ UNCHANGED fileCount
               ELSE \/ \* the directory cannot be read (any more)
                       /\ LegacyFail(Append(tr1, Ev("readdirSync", "fs", c.sourceDir, <<>>,
                                                    "recursive", "throw")),
                                     FsError("scandir"), FALSE)
                       /\ UNCHANGED fileCount
                    \/ /\ sourceExists
                       /\ LET paths == RecursivePaths(listing, 1)
                              n == CountFiles(paths, 1)
                          IN /\ fileCount' = n
                             /\ Goto(Append(tr1, Ev("readdirSync", "fs", c.sourceDir, <<>>,
                                                    "recursive", "ok"))
                                     \o StatEvents(c.sourceDir, paths)
                                     \o <<Log("core.info", "Found files to upload",
                                              <<V("fileCount", n)>>),
                                          Ev("endGroup", "core", "", <<>>, "", ""),
                                          Ev("startGroup", "core", "Setting up SSH Agent",
                                             <<>>, "", ""),
                                          Log("core.info", "Starting ssh-agent process...",
                                              <<>>)>>,
                                     "legacy_agent")

\* lines 360-365
LegacyAgentCatch ==
    <<Log("core.error", "Failed to setup SSH agent", <<>>),
      Ev("endGroup", "core", "", <<>>, "", "")>>

\* stdout.match(...)[1] when the pattern does not match
NullMatch == Err("Cannot read properties of null (reading '1')", <<>>)

\* lines 338-348
LegacyStartAgent ==
    /\ pc = "legacy_agent"
    /\ UNCHANGED <<injected, asMain, processExit, variant, fromParams, input, sourceExists, listing, cfg,
                   privateKey, platform, agentInfo, fileCount,
                   batchFileContent, batchFile, identityFile, sftpError>>
    /\ \/ /\ LegacyFail(Append(trace, AgentStartEv("reject")) \o LegacyAgentCatch,
                        ExecError("ssh-agent"), FALSE)
          /\ UNCHANGED <<agent, env, realProcessEnv>>
       \/ \E out \in AgentOutputs :
            LET tr == Append(trace, AgentStartEv("ok"))
                sock == Match(out, "SSH_AUTH_SOCK=")
                pid == Match(out, "SSH_AGENT_PID=")
            IN
            /\ agent' = [alive |-> TRUE, hasKey |-> FALSE]
            /\ IF ~sock.found \/ ~pid.found
               THEN /\ LegacyFail(tr \o LegacyAgentCatch, NullMatch, FALSE)
                    /\ UNCHANGED <<env, realProcessEnv>>
               ELSE /\ env' = [SSH_AUTH_SOCK |-> sock.val, SSH_AGENT_PID |-> pid.val]
                    /\ realProcessEnv' = IF injected THEN realProcessEnv ELSE env'
                    /\ Goto(tr \o <<Ev("setenv", "processEnv", "SSH_AUTH_SOCK", sock.val, "", ""),
                                    Ev("setenv", "processEnv", "SSH_AGENT_PID", pid.val, "", ""),
                                    Log("core.info", "SSH Agent started with PID:",
                                        <<V("agentPid", pid.val)>>),
                                    Log("core.info", "Adding SSH key to agent...", <<>>)>>,
                            "legacy_ssh_add")

\* lines 419-423: three commands joined with '\n'
LegacyBatchContent(remoteDir, dir) ==
    <<BatchLine("", "mkdir", "-p " \o remoteDir, ""),
      BatchLine("", "cd", remoteDir, ""),
      BatchLine("", "put", "-r " \o dir \o "/* .", "")>>

LegacyRender(lines) ==
    lines[1].cmd \o " " \o lines[1].text \o "\n"
    \o lines[2].cmd \o " " \o lines[2].text \o "\n"
    \o lines[3].cmd \o " " \o lines[3].text

\* lines 434-439, 461
LegacySftpCommand(c) ==
    "sftp -P " \o c.port \o " -o StrictHostKeyChecking=no -b " \o BatchFilePath
    \o " " \o c.username \o "@" \o c.host

\* lines 349-359 and 414-460: ssh-add, then the batch file is written
LegacySshAdd ==
    /\ pc = "legacy_ssh_add"
    /\ UNCHANGED <<injected, asMain, processExit, variant, fromParams, input, sourceExists, listing, cfg,
                   privateKey, platform, env, realProcessEnv, fileCount, identityFile, sftpError>>
    /\ \/ /\ LegacyFail(Append(trace, SshAddEv(privateKey, "reject")) \o LegacyAgentCatch,
                        ExecError("ssh-add"), FALSE)
          /\ UNCHANGED <<agent, agentInfo, batchFileContent, batchFile>>
       \/ \E w \in {"ok", "throw"} :
            LET content == LegacyBatchContent(cfg.remoteDir, cfg.sourceDir)
                tr == trace \o <<SshAddEv(privateKey, "ok"),
                                 Log("core.info", "SSH key added successfully", <<>>),
                                 Ev("endGroup", "core", "", <<>>, "", ""),
                                 Ev("startGroup", "core", "Preparing SFTP batch file",
                                    <<>>, "", ""),
                                 Ev("writeFile", "fs", BatchFilePath,
                                    LegacyRender(content), "", w)>>
            IN
            /\ agent' = [agent EXCEPT !.hasKey = agent.alive]
            /\ agentInfo' = "cleanupFn"
            /\ batchFileContent' = content
            /\ IF w = "throw"
               THEN /\ LegacyFail(tr, WriteError, TRUE)
                    /\ UNCHANGED batchFile
               ELSE /\ batchFile' = [exists |-> TRUE, content |-> content]
                    /\ Goto(tr \o <<Log("core.info", "SFTP batch file created", <<>>),
                                    Log("core.debug", "Batch file contents:",
                                        <<V("batchCommands", LegacyRender(content))>>),
                                    Ev("endGroup", "core", "", <<>>, "", ""),
                                    Ev("startGroup", "core", "Executing SFTP transfer",
                                       <<>>, "", ""),
                                    Log("core.info", "Starting file transfer...", <<>>)>>,
                            "legacy_sftp")

\* lines 466-476: the inner finally
LegacyUnlink(r) ==
    <<Ev("startGroup", "core", "Cleanup", <<>>, "", ""),
      Ev("unlink", "fs", BatchFilePath, <<>>, "", r),
      IF r = "ok"
      THEN Log("core.info", "Batch file deleted", <<>>)
      ELSE Log("core.warning", "Failed to delete batch file:", ErrV(FsError("unlink"))),
      Ev("endGroup", "core", "", <<>>, "", "")>>

LegacyOutputs_CountOnly(n) ==
    <<Ev("setOutput", "core", "deployed-files", n, "", "")>>

\* lines 479-480
LegacyOutputs(n) ==
    <<Ev("setOutput", "core", "deployed-files", n, "", ""),
      Ev("setOutput", "core", "deployment-time", "ISO-8601", "", "")>>

\* what the client writes, cut into the words the listeners look for, other
\* text and white space
StderrChunks ==
    {<<"debug1">>, <<"Error">>, <<"fatal">>, <<"Warning">>,
     <<"Warning", "Error">>, <<"fatal", " ", "Warning">>,
     <<" ", "Warning", "\n">>, <<"\n">>}

StdoutChunks == {<<"sftp>">>, <<" ">>}

WhiteSpace == {" ", "\n"}

\* String.prototype.trim
Trim(text) ==
    LET kept == {i \in 1..Len(text) : text[i] \notin WhiteSpace} IN
    IF kept = {} THEN <<>>
    ELSE SubSeq(text, CHOOSE i \in kept : \A j \in kept : i <= j,
                      CHOOSE i \in kept : \A j \in kept : j <= i)

\* String.prototype.includes
Includes(text, word) == \E i \in 1..Len(text) : text[i] = word

StderrLevel_WarningFirst(text) ==
    IF Includes(text, "Warning") THEN "core.warning"
    ELSE IF Includes(text, "Error") \/ Includes(text, "fatal") THEN "core.error"
    ELSE "core.info"

\* lines 449-455
StderrLevel(text) ==
    IF Includes(text, "Error") \/ Includes(text, "fatal") THEN "core.error"
    ELSE IF Includes(text, "Warning") THEN "core.warning"
    ELSE "core.info"

\* the chunks delivered to the listeners so far
ChunksSeen == Cardinality({i \in 1..Len(trace) : trace[i].op \in {"stdout", "stderr"}})

\* the client's output is varied for the default inputs and source tree
ClientWrites ==
    /\ pc = "legacy_sftp"
    /\ input = DefaultInput
    /\ listing = DefaultListing
    /\ ChunksSeen < MaxChunks

\* lines 447-456: the stderr listener, called once per chunk while sftp runs
LegacyStderr ==
    /\ ClientWrites
    /\ \E chunk \in StderrChunks :
        LET text == Trim(chunk) IN
        trace' = trace \o <<Ev("stderr", "sftp", "", chunk, "", ""),
                            Log(StderrLevel(text), "", text)>>
    /\ UNCHANGED <<injected, asMain, processExit, variant, fromParams, input, sourceExists, listing,
                   pc, cfg, privateKey, platform, agent, env, realProcessEnv, agentInfo,
                   fileCount, batchFileContent, batchFile, identityFile, sftpError, outcome,
                   error>>

\* lines 443-446: the stdout listener logs what is left after trimming
LegacyStdout ==
    /\ ClientWrites
    /\ \E chunk \in StdoutChunks :
        LET output == Trim(chunk) IN
        trace' = Append(trace, Ev("stdout", "sftp", "", chunk, "", ""))
                 \o (IF output # <<>> THEN <<Log("core.info", "", output)>> ELSE <<>>)
    /\ UNCHANGED <<injected, asMain, processExit, variant, fromParams, input, sourceExists, listing,
                   pc, cfg, privateKey, platform, agent, env, realProcessEnv, agentInfo,
                   fileCount, batchFileContent, batchFile, identityFile, sftpError, outcome,
                   error>>

\* lines 461-484: the transfer, the inner finally, then the outputs or the catch
LegacySftp ==
    /\ pc = "legacy_sftp"
    /\ UNCHANGED <<injected, asMain, processExit, variant, fromParams, input, sourceExists, listing, cfg,
                   privateKey, platform, agent, env, realProcessEnv, agentInfo, fileCount,
                   batchFileContent, identityFile, sftpError>>
    /\ \E r \in {"ok", "reject"}, u \in {"ok", "throw"} :
        LET ev == Exec("exec", LegacySftpCommand(cfg), <<>>, "listeners", r) IN
        /\ batchFile' = IF u = "ok" THEN [exists |-> FALSE, content |-> <<>>] ELSE batchFile
        /\ IF r = "ok"
           THEN /\ UNCHANGED error
                /\ LegacyFinally(trace \o <<ev,
                                            Log("core.info",
                                                "SFTP transfer completed successfully", <<>>),
                                            Ev("endGroup", "core", "", <<>>, "", "")>>
                                 \o LegacyUnlink(u) \o LegacyOutputs(fileCount), TRUE)
           ELSE LegacyFail(Append(trace, ev) \o LegacyUnlink(u), ExecError("sftp"), TRUE)

\* lines 356-359 and 487-496: the cleanup function; its failure is a warning
LegacyKillAgent ==
    /\ pc = "legacy_kill"
    /\ UNCHANGED <<injected, asMain, processExit, variant, fromParams, input, sourceExists, listing, cfg,
                   privateKey, platform, env, realProcessEnv, agentInfo, fileCount,
                   batchFileContent, batchFile, identityFile, sftpError, error>>
    /\ \E r \in {"ok", "reject"} :
        /\ agent' = IF r = "ok" THEN [alive |-> FALSE, hasKey |-> FALSE] ELSE agent
        /\ trace' = trace \o <<Log("core.info", "Terminating SSH agent...", <<>>),
                                Exec("exec", "ssh-agent -k", <<>>, "", r),
                               IF r = "ok"
                               THEN Log("core.info", "SSH agent terminated", <<>>)
                               ELSE Log("core.warning", "Failed to cleanup ssh-agent:",
                                        ErrV(ExecError("ssh-agent"))),
                               Ev("endGroup", "core", "", <<>>, "", "")>>
        /\ outcome' = "resolved"
        /\ pc' = "done"

LegacyNext ==
    \/ LegacyStart
    \/ LegacyStartAgent
    \/ LegacySshAdd
    \/ LegacyStderr
    \/ LegacyStdout
    \/ LegacySftp
    \/ LegacyKillAgent

LegacySpec == LegacyInit /\ [][LegacyNext]_vars

----------------------------------------------------------------------------
(* Two invocations of deploy in one process, interleaved at their await
   points: part_001 lines 107-234. process.env, the agent daemons and the two
   fixed paths in the temporary directory are shared; pc, outcome and trace
   are kept per invocation. Every external call of this specification succeeds
   unless the shared state makes it fail. *)

Runs == {1, 2}

\* what the agent started by an invocation prints
AgentSock(r) == "/tmp/ssh-agent." \o ToString(r)

AgentPid(r) == "pid" \o ToString(r)

\* the invocation whose agent the ambient environment names
AmbientAgent == CHOOSE a \in Runs : AgentPid(a) = env.SSH_AGENT_PID

ConcInit ==
    /\ variant = "concurrent"
    /\ fromParams = FALSE
    /\ asMain = FALSE
    /\ injected = FALSE
    /\ processExit = NoExit
    /\ input = DefaultInput
    /\ sourceExists = TRUE
    /\ listing = DefaultListing
    /\ cfg = ResolvedCfg(DefaultInput, FALSE)
    /\ privateKey = NormalizeKey(DefaultInput.private_key)
    /\ platform = ""
    /\ agentInfo = "undefined"
    /\ fileCount = CountFiles(RecursivePaths(DefaultListing, 1), 1)
    /\ batchFileContent = BatchContent(cfg.remoteDir, cfg.sourceDir, DefaultListing)
    /\ sftpError = NoError
    /\ error = NoError
    /\ env = [SSH_AUTH_SOCK |-> "", SSH_AGENT_PID |-> ""]
    /\ realProcessEnv = env
    /\ batchFile = [exists |-> FALSE, content |-> <<>>]
    /\ identityFile = NoFile
    /\ agent = [r \in Runs |-> [alive |-> FALSE, hasKey |-> FALSE]]
    /\ pc = [r \in Runs |-> "which"]
    /\ outcome = [r \in Runs |-> "running"]
    /\ trace = [r \in Runs |-> <<>>]

ConcFrame ==
    UNCHANGED <<variant, fromParams, asMain, injected, processExit, input, sourceExists,
                listing, cfg, privateKey, platform, agentInfo, fileCount, batchFileContent,
                sftpError, error>>

\* invocation r appends its events and waits at its next await
ConcGoto(r, events, p) ==
    /\ trace' = [trace EXCEPT ![r] = @ \o events]
    /\ pc' = [pc EXCEPT ![r] = p]
    /\ UNCHANGED outcome

\* invocation r settles
ConcSettle(r, events, result) ==
    /\ trace' = [trace EXCEPT ![r] = @ \o events]
    /\ pc' = [pc EXCEPT ![r] = "done"]
    /\ outcome' = [outcome EXCEPT ![r] = result]

\* lines 10-27: `which ssh-add` finds the tool
ConcWhich(r) ==
    /\ pc[r] = "which"
    /\ ConcGoto(r, <<WhichEv("exit0")>>, "agent_start")
    /\ ConcFrame
    /\ UNCHANGED <<agent, env, realProcessEnv, batchFile, identityFile>>

\* lines 55-70: `ssh-agent -s` starts a daemon of its own for the invocation;
\* the parsed values are assigned to process.env
ConcStartAgent(r) ==
    /\ pc[r] = "agent_start"
    /\ agent' = [agent EXCEPT ![r] = [alive |-> TRUE, hasKey |-> FALSE]]
    /\ env' = [SSH_AUTH_SOCK |-> AgentSock(r), SSH_AGENT_PID |-> AgentPid(r)]
    /\ realProcessEnv' = env'
    /\ ConcGoto(r, <<AgentStartEv("ok"),
                     Ev("setenv", "processEnv", "SSH_AUTH_SOCK", AgentSock(r), "", ""),
                     Ev("setenv", "processEnv", "SSH_AGENT_PID", AgentPid(r), "", "")>>,
                "ssh_add")
    /\ ConcFrame
    /\ UNCHANGED <<batchFile, identityFile>>

\* lines 75-78 and 86-92: ssh-add talks to the agent the environment names
\* when it is spawned; it fails when that agent is gone
ConcSshAdd(r) ==
    /\ pc[r] = "ssh_add"
    /\ LET a == AmbientAgent IN
       IF agent[a].alive
       THEN /\ agent' = [agent EXCEPT ![a].hasKey = TRUE]
            /\ ConcGoto(r, <<ChildEnvEv("ssh-add -"), SshAddEv(privateKey, "ok")>>,
                        "write_batch")
       ELSE /\ UNCHANGED agent
            /\ ConcSettle(r, <<ChildEnvEv("ssh-add -"), SshAddEv(privateKey, "reject")>>,
                          "rejected")
    /\ ConcFrame
    /\ UNCHANGED <<env, realProcessEnv, batchFile, identityFile>>

\* lines 146-166
ConcWriteBatch(r) ==
    /\ pc[r] = "write_batch"
    /\ batchFile' = [exists |-> TRUE, content |-> batchFileContent]
    /\ ConcGoto(r, <<Ev("writeFile", "fs", BatchFilePath, Render(batchFileContent, 1),
                        "", "ok")>>, "write_identity")
    /\ ConcFrame
    /\ UNCHANGED <<agent, env, realProcessEnv, identityFile>>

\* lines 172-174
ConcWriteIdentity(r) ==
    /\ pc[r] = "write_identity"
    /\ identityFile' = [exists |-> TRUE, content |-> privateKey,
                        mode |-> IF identityFile.exists THEN identityFile.mode
                                 ELSE IdentityMode]
    /\ ConcGoto(r, <<Ev("writeFile", "fs", IdentityFilePath, privateKey, "mode=0600",
                        "ok")>>, "sftp")
    /\ ConcFrame
    /\ UNCHANGED <<agent, env, realProcessEnv, batchFile>>

\* lines 182-198: sftp needs the batch script and the identity file, which the
\* other invocation may have removed by now
ConcSftp(r) ==
    /\ pc[r] = "sftp"
    /\ IF batchFile.exists /\ identityFile.exists
       THEN ConcGoto(r, <<SftpEv(cfg, "ok")>>, "unlink_identity")
       ELSE ConcGoto(r, <<SftpEv(cfg, "reject")>>, "unlink_identity_err")
    /\ ConcFrame
    /\ UNCHANGED <<agent, env, realProcessEnv, batchFile, identityFile>>

ConcUnlinkEv(path, file) ==
    Ev("unlink", "fs", path, <<>>, "", IF file.exists THEN "ok" ELSE "reject")

\* lines 190-195 and 199-206: a failing unlink is a warning; after a failed
\* transfer the error of sftp is thrown again
ConcUnlinkIdentity(r) ==
    /\ pc[r] \in {"unlink_identity", "unlink_identity_err"}
    /\ identityFile' = NoFile
    /\ IF pc[r] = "unlink_identity"
       THEN ConcGoto(r, <<ConcUnlinkEv(IdentityFilePath, identityFile)>>, "unlink_batch")
       ELSE ConcSettle(r, <<ConcUnlinkEv(IdentityFilePath, identityFile)>>, "rejected")
    /\ ConcFrame
    /\ UNCHANGED <<agent, env, realProcessEnv, batchFile>>

\* lines 210-215
ConcUnlinkBatch(r) ==
    /\ pc[r] = "unlink_batch"
    /\ batchFile' = [exists |-> FALSE, content |-> <<>>]
    /\ ConcGoto(r, <<ConcUnlinkEv(BatchFilePath, batchFile)>>, "kill_agent")
    /\ ConcFrame
    /\ UNCHANGED <<agent, env, realProcessEnv, identityFile>>

KillTarget_Own(r) == r

\* `ssh-agent -k` kills the agent whose pid is in the SSH_AGENT_PID of its
\* environment
KillTarget(r) == AmbientAgent

\* lines 218-226: the kill fails when that agent is gone already; the failure
\* is a warning
ConcKillAgent(r) ==
    /\ pc[r] = "kill_agent"
    /\ LET a == KillTarget(r) IN
       /\ agent' = [agent EXCEPT ![a] = [alive |-> FALSE, hasKey |-> FALSE]]
       /\ ConcSettle(r, <<ChildEnvEv("ssh-agent -k"),
                          Exec("exec", "ssh-agent -k", <<>>, "",
                               IF agent[a].alive THEN "ok" ELSE "reject")>>,
                     "resolved")
    /\ ConcFrame
    /\ UNCHANGED <<env, realProcessEnv, batchFile, identityFile>>

ConcNext ==
    \/ \E r \in Runs : ConcWhich(r)
    \/ \E r \in Runs : ConcStartAgent(r)
    \/ \E r \in Runs : ConcSshAdd(r)
    \/ \E r \in Runs : ConcWriteBatch(r)
    \/ \E r \in Runs : ConcWriteIdentity(r)
    \/ \E r \in Runs : ConcSftp(r)
    \/ \E r \in Runs : ConcUnlinkIdentity(r)
    \/ \E r \in Runs : ConcUnlinkBatch(r)
    \/ \E r \in Runs : ConcKillAgent(r)

ConcSpec == ConcInit /\ [][ConcNext]_vars

----------------------------------------------------------------------------
(* Properties *)

Idx == 1..Len(trace)

IsExec(e, cmd) == e.op = "exec" /\ e.arg = cmd

IsIdentityWrite(e) == e.op = "writeFile" /\ e.arg = IdentityFilePath

IsBatchWrite(e) == e.op = "writeFile" /\ e.arg = BatchFilePath

IsSftp(e) == e.op = "exec" /\ e.arg = SftpCommand(cfg)

Returned == pc = "done"

\* C1: in deploy, on every exit path taken after startSshAgent has returned,
\* `ssh-agent -k` has been invoked before deploy returns or rejects.
AgentKilledOnEveryExit ==
    (variant = "deploy" /\ Returned /\ agentInfo = "cleanupFn")
        => \E i \in Idx : IsExec(trace[i], "ssh-agent -k")

\* C2: once the batch script has been written, an unlink of it is performed
\* before the call returns or rejects, on success and on failure alike.
BatchScriptUnlinkedOnEveryExit ==
    Returned =>
        \A i \in Idx : (IsBatchWrite(trace[i]) /\ trace[i].res = "ok")
            => \E j \in Idx : j > i /\ trace[j].op = "unlink" /\ trace[j].arg = BatchFilePath

\* C3: whenever the identity file has been written, an unlink of that file is
\* performed before the call returns or rejects, after a successful sftp
\* invocation and after a failed one alike.
IdentityFileUnlinkedOnEveryExit ==
    Returned =>
        \A i \in Idx : (IsIdentityWrite(trace[i]) /\ trace[i].res = "ok")
            => \E j \in Idx : j > i /\ trace[j].op = "unlink" /\ trace[j].arg = IdentityFilePath

IdentityUnlinkedAfterFailedSftp ==
    /\ Returned
    /\ outcome = "rejected"
    /\ error = ExecError("sftp")
    /\ \E i, j \in Idx :
        /\ i < j
        /\ IsIdentityWrite(trace[i]) /\ trace[i].res = "ok"
        /\ trace[j].op = "unlink" /\ trace[j].arg = IdentityFilePath

\* C4: the outcome of the transfer step depends only on the exit status of the
\* sftp client: a non-zero exit code, reported by rejecting or by resolving with
\* exitCode # 0, makes deployWithDependencies reject; exit code 0 makes it
\* succeed, whatever is on stderr.
TransferOutcomeByExitStatus ==
    (variant = "deployWithDependencies" /\ Returned) =>
        \A i \in Idx : IsSftp(trace[i]) =>
            /\ trace[i].res \in {"reject", "exit1"} => outcome = "rejected"
            /\ trace[i].res = "exit0" => outcome = "resolved"

\* C5: in deploy, if the source directory does not exist, deploy fails without
\* having acquired a credential and without having spawned any subprocess.
NoSideEffectsWhenSourceMissing ==
    (variant = "deploy" /\ ~sourceExists /\ Returned) =>
        /\ outcome = "rejected"
        /\ \A i \in Idx : trace[i].op # "exec" /\ ~IsIdentityWrite(trace[i])

\* C6: in every state of a deploy run at most one credential representation is
\* active: never an ssh-agent holding the key while the identity file holding
\* the same key exists on disk.
SingleCredentialRepresentation ==
    variant = "deploy" =>
        ~(agent.alive /\ agent.hasKey /\ identityFile.exists
          /\ identityFile.content = privateKey)

\* C7: key normalization in deploy: a non-empty raw key not ending in a newline
\* is used as rawKey + "\n", a raw key ending in a newline is used unchanged,
\* and normalizing the used key again changes nothing.
KeyNormalization ==
    (variant = "deploy" /\ cfg # NoCfg) =>
        LET raw == input.private_key IN
        /\ raw # <<>>
        /\ raw[Len(raw)] # "\n" => privateKey = raw \o <<"\n">>
        /\ raw[Len(raw)] = "\n" => privateKey = raw
        /\ NormalizeKey(privateKey) = privateKey
        /\ \A i \in Idx : (IsExec(trace[i], "ssh-add -") \/ IsIdentityWrite(trace[i]))
                => trace[i].data = privateKey
        /\ (identityFile.exists /\ \E i \in Idx : IsIdentityWrite(trace[i]) /\ trace[i].res = "ok")
                => identityFile.content = privateKey

NormalizedKeyOnDisk ==
    /\ variant = "deploy"
    /\ input.private_key = <<"k", "k">>
    /\ identityFile.exists
    /\ identityFile.content = <<"k", "k", "\n">>

\* C8: for every privateKey parameter that does not end in a newline,
\* deployWithDependencies registers privateKey + "\n" with setSecret and pipes
\* privateKey + "\n" to `ssh-add -`.
ParamKeyNormalized ==
    (variant = "deployWithDependencies" /\ fromParams
     /\ ~EndsWithNewline(input.private_key)) =>
        \A i \in Idx : (trace[i].op = "setSecret" \/ IsExec(trace[i], "ssh-add -"))
            => trace[i].data = Append(input.private_key, "\n")

\* C9: in deploy and deployWithDependencies, the key value handed to ssh-add
\* and written to the identity file is registered with setSecret before
\* ssh-agent is started, before ssh-add is invoked and before the identity file
\* is written.
SecretRegisteredBeforeUse ==
    \A i \in Idx :
        (IsExec(trace[i], "ssh-agent -s") \/ IsExec(trace[i], "ssh-add -")
         \/ IsIdentityWrite(trace[i]))
        => /\ \E j \in Idx : j < i /\ trace[j].op = "setSecret" /\ trace[j].data = privateKey
           /\ (IsExec(trace[i], "ssh-add -") \/ IsIdentityWrite(trace[i]))
                => trace[i].data = privateKey

MaskedKeyWrittenToIdentityFile ==
    /\ ~EndsWithNewline(input.private_key)
    /\ identityFile.exists
    /\ \E i, j \in Idx :
        /\ i < j
        /\ trace[i].op = "setSecret"
        /\ IsIdentityWrite(trace[j]) /\ trace[j].res = "ok"

KeySources == {"privateKey", "input.private_key"}

NoKeyIn(data) == \A d \in 1..Len(data) : data[d].src \notin KeySources

\* C10: no message deploy passes to a logging call and no error it throws
\* contains the private key value, raw or normalized, on any path.
KeyNeverLogged ==
    variant = "deploy" =>
        /\ \A i \in Idx : trace[i].op = "log" => NoKeyIn(trace[i].data)
        /\ NoKeyIn(error.data)
        /\ NoKeyIn(sftpError.data)

FailedAfterKeyOnDisk ==
    /\ variant = "deploy"
    /\ Returned
    /\ outcome = "rejected"
    /\ error = ExecError("sftp")
    /\ \E i \in Idx : trace[i].op = "log" /\ trace[i].arg = "Configuration validated:"
    /\ \E i \in Idx : IsIdentityWrite(trace[i]) /\ trace[i].res = "ok"

\* C11: whenever <tmpdir>/deploy_identity holds the private key during a run,
\* its permission mode is owner read/write only (0600), also when a file with
\* that name existed with other permissions before the run wrote to it.
IdentityFileOwnerOnly ==
    (identityFile.exists /\ privateKey # <<>> /\ identityFile.content = privateKey)
        => identityFile.mode = IdentityMode


BatchWritten == \E i \in Idx : IsBatchWrite(trace[i]) /\ trace[i].res = "ok"

IsPut(ln) == ln.cmd = "put"

PutCount(lines) == Cardinality({i \in 1..Len(lines) : IsPut(lines[i])})

RegularFiles(l) == {i \in 1..Len(l) : l[i].kind = "file"}

RECURSIVE VerbatimPuts(_, _, _)
VerbatimPuts(S, l, i) ==
    IF i > Len(l) THEN ""
    ELSE (IF l[i].kind = "file"
          THEN "put \"" \o S \o "/" \o l[i].name \o "\" \"" \o l[i].name \o "\"\n"
          ELSE "")
         \o VerbatimPuts(S, l, i + 1)

\* what path.join makes of the source directories of the model and a name
JoinedPath(S, name) ==
    CASE S = "" -> name
      [] S = "src" -> "src/" \o name
      [] S = "src/" -> "src/" \o name
      [] S = "./dist" -> "dist/" \o name
      [] S = "../dist" -> "../dist/" \o name

RECURSIVE JoinedPuts(_, _, _)
JoinedPuts(S, l, i) ==
    IF i > Len(l) THEN ""
    ELSE (IF l[i].kind = "file"
          THEN "put \"" \o JoinedPath(S, l[i].name) \o "\" \"" \o l[i].name \o "\"\n"
          ELSE "")
         \o JoinedPuts(S, l, i + 1)

\* C12 as stated: the script written for source directory S, remote directory
\* R and listing L is "-mkdir R", "cd R", then one line put "S/<name>" "<name>"
\* per regular-file entry of L in listing order, each line newline-terminated.
BatchScriptVerbatimPaths ==
    \A i \in Idx : IsBatchWrite(trace[i]) =>
        trace[i].data = "-mkdir " \o cfg.remoteDir \o "\n"
                        \o "cd " \o cfg.remoteDir \o "\n"
                        \o VerbatimPuts(cfg.sourceDir, listing, 1)

\* C12: the script written for source directory S, remote directory R and
\* listing L is "-mkdir R", "cd R", then one line put "<path.join(S, name)>"
\* "<name>" per regular-file entry of L in listing order, each line
\* newline-terminated; it is a function of S, R and L alone.
BatchScriptJoinedPaths ==
    \A i \in Idx : IsBatchWrite(trace[i]) =>
        trace[i].data = "-mkdir " \o cfg.remoteDir \o "\n"
                        \o "cd " \o cfg.remoteDir \o "\n"
                        \o JoinedPuts(cfg.sourceDir, listing, 1)

BatchWrittenForDotSlashDist ==
    /\ BatchWritten
    /\ cfg.sourceDir = "./dist"
    /\ RegularFiles(listing) # {}

\* what the client reports for the script it ran
BatchRuns == {i \in Idx : trace[i].op = "batch"}

\* C13: when the mkdir directive fails the client goes on to the cd directive
\* and, nothing else failing, through every put and exits 0; when the cd
\* directive or a put fails the client stops there, no later directive is
\* executed and the transfer step fails.
MkdirFailureTolerated ==
    \A i \in BatchRuns :
        LET ex == trace[i].data IN
        /\ \A k \in 1..Len(ex) : ~ex[k].ok =>
              IF ex[k].cmd = "mkdir"
              THEN k < Len(ex) /\ ex[k + 1].cmd = "cd"
              ELSE /\ k = Len(ex)
                   /\ trace[i].res = "exit1"
                   /\ trace[i - 1].op = "exec" /\ trace[i - 1].res = "reject"
                   /\ Returned => (outcome = "rejected" /\ error = ExecError("sftp"))
        /\ (\A k \in 1..Len(ex) : ex[k].ok \/ ex[k].cmd = "mkdir") =>
              /\ trace[i].res = "exit0"
              /\ Len(ex) = Len(batchFileContent)
              /\ Returned => outcome = "resolved"

TransferCompletedAfterFailedMkdir ==
    /\ Returned
    /\ outcome = "resolved"
    /\ \E i \in BatchRuns :
        LET ex == trace[i].data IN
        /\ Len(ex) >= 3
        /\ ex[1].cmd = "mkdir" /\ ~ex[1].ok
        /\ ex[Len(ex)].cmd = "put" /\ ex[Len(ex)].ok

\* C14: the put directives of the script name exactly the entries directly
\* under sourceDir that are regular files, one directive each; no directory, no
\* symbolic link or other non-regular entry and no file of a subdirectory is
\* named.
PutsAreTheRegularFiles ==
    BatchWritten =>
        LET puts == {i \in 1..Len(batchFile.content) : IsPut(batchFile.content[i])} IN
        (batchFile.exists =>
            /\ {batchFile.content[i].name : i \in puts}
                   = {listing[j].name : j \in RegularFiles(listing)}
            /\ Cardinality(puts) = Cardinality(RegularFiles(listing))
            /\ \A i \in puts :
                   batchFile.content[i].text
                       = "\"" \o JoinedPath(cfg.sourceDir, batchFile.content[i].name)
                         \o "\" \"" \o batchFile.content[i].name \o "\"")

SymbolicLinkLeftOut ==
    /\ BatchWritten
    /\ batchFile.exists
    /\ PutCount(batchFile.content) = 1
    /\ \E j \in 1..Len(listing) : listing[j].kind = "link"
    /\ \E j \in 1..Len(listing) : listing[j].kind = "file"

\* C15: when every entry of the source directory is a regular file, the number
\* of put directives in the script equals the number of files in the directory
\* and equals what getFileCount returned.
PutCountEqualsFileCount ==
    (BatchWritten /\ batchFile.exists /\ \A j \in 1..Len(listing) : listing[j].kind = "file") =>
        /\ PutCount(batchFile.content) = Len(listing)
        /\ fileCount = Len(listing)

TwoRegularFilesScripted ==
    /\ BatchWritten
    /\ batchFile.exists
    /\ Len(listing) = 2
    /\ \A j \in 1..Len(listing) : listing[j].kind = "file"

\* the invocations of the transfer client: every getExecOutput call that is not
\* one of the calls made to set up the agent
TransferCalls ==
    {i \in Idx : /\ trace[i].op = "exec"
                 /\ trace[i].fn = "getExecOutput"
                 /\ trace[i].arg \notin {"which ssh-add", "ssh-agent -s", "ssh-add -"}}

\* the port of the run: the port parameter, or the port input with 22 for an
\* empty one
ConfiguredPort ==
    IF fromParams THEN input.port
    ELSE IF input.port = "" THEN "22" ELSE input.port

IdentityWritten == \E i \in Idx : IsIdentityWrite(trace[i]) /\ trace[i].res = "ok"

\* C16: deployWithDependencies invokes the transfer client at most once, and
\* exactly once in every run that has written the identity file and returned;
\* the command is sftp -v -o StrictHostKeyChecking=no
\* -o UserKnownHostsFile=/dev/null -i <tmpdir>/deploy_identity
\* -b <tmpdir>/sftp_batch -P <port> <username>@<host>, with the configured port
\* or 22 when the port input is empty.
SingleTransferInvocation ==
    variant = "deployWithDependencies" =>
        /\ Cardinality(TransferCalls) <= 1
        /\ (Returned /\ IdentityWritten) => Cardinality(TransferCalls) = 1
        /\ \A i \in TransferCalls :
              trace[i].arg =
                  "sftp -v -o StrictHostKeyChecking=no -o UserKnownHostsFile=/dev/null"
                  \o " -i /tmp/deploy_identity -b /tmp/sftp_batch -P " \o ConfiguredPort
                  \o " " \o input.username \o "@" \o input.host

TransferInvokedOnDefaultPort ==
    /\ variant = "deployWithDependencies"
    /\ ~fromParams
    /\ input.port = ""
    /\ Returned
    /\ Cardinality(TransferCalls) = 1

IsSetOutput(e, name) == e.op = "setOutput" /\ e.arg = name

\* C17: when deploy succeeds it has set the outputs deployed-files and
\* deployment-time; when it fails it has set neither.
OutputsSetOnSuccessOnly ==
    (variant = "deploy" /\ Returned) =>
        /\ outcome = "resolved" =>
              /\ \E i \in Idx : IsSetOutput(trace[i], "deployed-files")
              /\ \E i \in Idx : IsSetOutput(trace[i], "deployment-time")
        /\ outcome = "rejected" =>
              \A i \in Idx : trace[i].op # "setOutput"

IsIdentityUnlink(e) == e.op = "unlink" /\ e.arg = IdentityFilePath

IsBatchUnlink(e) == e.op = "unlink" /\ e.arg = BatchFilePath

IsWarning(e) == e.op = "log" /\ e.fn = "console.warn"

\* C18: when the sftp invocation fails with an error E, the call rejects with E
\* itself whether or not the unlink of the identity file that follows succeeds;
\* a failure of that unlink is reported as a warning only.
TransferErrorPropagated ==
    \A i \in TransferCalls : trace[i].res = "reject" =>
        /\ Returned => (outcome = "rejected" /\ error = ExecError("sftp"))
        /\ \A j \in Idx : (j > i /\ IsIdentityUnlink(trace[j]) /\ trace[j].res = "reject")
              => (j < Len(trace) /\ IsWarning(trace[j + 1]))

TransferErrorKeptAfterFailedUnlink ==
    /\ Returned
    /\ error = ExecError("sftp")
    /\ \E i \in TransferCalls :
        /\ trace[i].res = "reject"
        /\ \E j \in Idx : j > i /\ IsIdentityUnlink(trace[j]) /\ trace[j].res = "reject"

\* C19: after a successful sftp invocation in deploy, whatever combination of
\* the identity unlink, the batch-script unlink and `ssh-agent -k` fails, each
\* failure is reported as a warning, all three cleanup steps are performed in
\* that order, and deploy returns success.
CleanupFailuresAreWarnings ==
    (variant = "deploy" /\ Returned /\ \E i \in TransferCalls : trace[i].res = "exit0") =>
        /\ outcome = "resolved"
        /\ \E a \in Idx :
              /\ IsIdentityUnlink(trace[a])
              /\ \A i \in TransferCalls : i < a
              /\ \E b \in Idx :
                    /\ IsBatchUnlink(trace[b]) /\ a < b
                    /\ \E c \in Idx : IsExec(trace[c], "ssh-agent -k") /\ b < c
        /\ \A j \in Idx :
              ((trace[j].op = "unlink" \/ IsExec(trace[j], "ssh-agent -k"))
                  /\ trace[j].res = "reject")
              => (j < Len(trace) /\ IsWarning(trace[j + 1]))

SuccessDespiteAllCleanupFailing ==
    /\ variant = "deploy"
    /\ Returned
    /\ outcome = "resolved"
    /\ \E a \in Idx : IsIdentityUnlink(trace[a]) /\ trace[a].res = "reject"
    /\ \E b \in Idx : IsBatchUnlink(trace[b]) /\ trace[b].res = "reject"
    /\ \E c \in Idx : IsExec(trace[c], "ssh-agent -k") /\ trace[c].res = "reject"

\* the standard output ssh-agent -s produced, as startSshAgent logged it
AgentStdout == {trace[i].data[1].val : i \in {j \in Idx : /\ trace[j].op = "log"
                                                          /\ trace[j].arg = "ssh-agent output:"}}

HasToken(out, name) == \E k \in 1..Len(out) : out[k] = name

\* C20: if the standard output of ssh-agent -s is empty or lacks SSH_AUTH_SOCK=
\* or SSH_AGENT_PID=, startSshAgent throws, deploy fails, and no ssh-add, no
\* directory listing or stat, no write of the batch script or identity file
\* and no sftp invocation happens.
UnparsableAgentOutputStopsDeploy ==
    \A out \in AgentStdout :
        (variant = "deploy"
            /\ (out = <<>> \/ ~HasToken(out, "SSH_AUTH_SOCK=") \/ ~HasToken(out, "SSH_AGENT_PID=")))
        => /\ Returned
           /\ outcome = "rejected"
           /\ error \in {NoOutput, ParseError}
           /\ \A i \in Idx :
                 /\ trace[i].op \notin {"readdirSync", "statSync", "writeFile", "batch"}
                 /\ trace[i].op = "exec" =>
                       trace[i].arg \in {"which ssh-add", "sudo apt-get update",
                                         "sudo apt-get install -y openssh-client",
                                         "ssh-agent -s"}

DeployStoppedOnPartialAgentOutput ==
    /\ variant = "deploy"
    /\ Returned
    /\ error = ParseError
    /\ \E out \in AgentStdout : HasToken(out, "SSH_AUTH_SOCK=") /\ ~HasToken(out, "SSH_AGENT_PID=")

\* C21: if host, username or the private key is missing or empty, deploy fails
\* with the input error once validation has run, and no ssh-agent is started,
\* no key is handed to ssh-add, no file is written and no transfer is invoked.
MissingInputFailsFast ==
    (variant = "deploy"
        /\ (input.host = "" \/ input.username = "" \/ input.private_key = <<>>)) =>
        /\ pc \in {"start", "which", "apt_update", "apt_install", "verify", "validate", "done"}
        /\ Returned => outcome = "rejected"
        /\ (\E i \in Idx : trace[i].arg = "Validating input parameters...") =>
              /\ Returned
              /\ error = InputError(IF input.host = "" THEN "host"
                                    ELSE IF input.username = "" THEN "username"
                                    ELSE "private_key")
        /\ ~agent.alive
        /\ ~batchFile.exists
        /\ ~identityFile.exists
        /\ \A i \in Idx :
              /\ trace[i].op \notin {"writeFile", "setSecret", "setenv", "readdirSync"}
              /\ trace[i].op = "exec" =>
                    trace[i].arg \in {"which ssh-add", "sudo apt-get update",
                                      "sudo apt-get install -y openssh-client"}

RejectedForMissingHost ==
    /\ variant = "deploy"
    /\ input.host = ""
    /\ Returned
    /\ error = InputError("host")

IsCleanup(e) == e.op = "unlink" \/ IsExec(e, "ssh-agent -k")

\* a collaborator call that threw or rejected, or a catch block that logged
FailureSeen ==
    \E i \in Idx :
        \/ trace[i].res \in {"reject", "throw"} /\ ~IsCleanup(trace[i])
        \/ trace[i].op = "log" /\ trace[i].fn \in {"core.error", "console.error"}

\* C22: whenever a step of deploy other than cleanup threw or rejected, deploy
\* rejects with an error and does not resolve; run as the main module, the
\* process then exits with code 1.
FailureRejectsAndExitsOne ==
    (variant = "deploy" /\ Returned /\ FailureSeen) =>
        /\ outcome = "rejected"
        /\ error # NoError
        /\ processExit # NoExit => processExit = 1

MainExitedAfterFailedWrite ==
    /\ asMain
    /\ processExit = 1
    /\ error = WriteError

\* the successor of each step on the path without failure
SuccessPath ==
    [p \in {"start", "which", "apt_update", "apt_install", "verify", "validate",
            "agent_start", "ssh_add", "count", "list", "write_batch",
            "write_identity", "sftp", "unlink_identity", "unlink_batch"} |->
        CASE p = "start" -> {"which"}
          [] p = "which" -> {"validate", "apt_update", "verify"}
          [] p = "apt_update" -> {"apt_install"}
          [] p = "apt_install" -> {"verify"}
          [] p = "verify" -> {"validate"}
          [] p = "validate" -> {"agent_start"}
          [] p = "agent_start" -> {"ssh_add"}
          [] p = "ssh_add" -> {"count"}
          [] p = "count" -> {"list"}
          [] p = "list" -> {"write_batch"}
          [] p = "write_batch" -> {"write_identity"}
          [] p = "write_identity" -> {"sftp"}
          [] p = "sftp" -> {"unlink_identity"}
          [] p = "unlink_identity" -> {"unlink_batch"}
          [] p = "unlink_batch" -> {"kill_agent"}]

\* the steps whose failure ends the run
FallibleSteps ==
    {"which", "apt_update", "apt_install", "verify", "validate", "agent_start",
     "ssh_add", "count", "list", "write_batch", "write_identity"}

ExecsAdded ==
    Cardinality({i \in (Len(trace) + 1)..Len(trace') : trace'[i].op = "exec"})

StepInOrder ==
    variant = "deploy" =>
        /\ ExecsAdded <= 1
        /\ \/ /\ pc \in DOMAIN SuccessPath
              /\ pc' \in SuccessPath[pc]
              /\ outcome' = "running"
           \/ /\ pc \in FallibleSteps
              /\ pc' = "done"
              /\ outcome' = "rejected"
           \/ /\ pc = "sftp"
              /\ pc' = "unlink_identity_err"
              /\ outcome' = "running"
           \/ /\ pc = "unlink_identity_err"
              /\ pc' = "done"
              /\ outcome' = "rejected"
           \/ /\ pc = "kill_agent"
              /\ pc' = "done"
              /\ outcome' = "resolved"
           \/ /\ pc = "done"
              /\ pc' = "done"
              /\ outcome' = outcome

WhichCalls == {i \in Idx : IsExec(trace[i], "which ssh-add")}

InstallCalls == {i \in Idx : trace[i].op = "exec" /\ trace[i].fn = "exec"
                              /\ trace[i].arg # "ssh-agent -k"}

ToolsFailed ==
    \/ \E i \in WhichCalls : trace[i].res = "reject"
    \/ \E i \in InstallCalls : trace[i].res = "reject"
    \/ \E i, j \in WhichCalls : i < j /\ trace[j].res = "exit1"

\* C29: when the first `which ssh-add` exits 0 nothing is installed and it is
\* not run again; when it exits non-zero, on linux `apt-get update` and then
\* `apt-get install -y openssh-client` are run, on other platforms nothing,
\* and `which ssh-add` is run a second time; when the second run exits
\* non-zero or an install command fails, the run is rejected with no key read
\* or masked and no ssh-agent started.
ToolsCheckProtocol ==
    LET first == CHOOSE i \in WhichCalls : \A j \in WhichCalls : i <= j IN
    WhichCalls # {} =>
        /\ Cardinality(WhichCalls) <= 2
        /\ Cardinality(InstallCalls) <= 2
        /\ trace[first].res # "exit1" => (InstallCalls = {} /\ WhichCalls = {first})
        /\ platform # "linux" => InstallCalls = {}
        /\ \A i \in InstallCalls :
              /\ i > first
              /\ trace[i].arg \in {"sudo apt-get update",
                                   "sudo apt-get install -y openssh-client"}
              /\ trace[i].arg = "sudo apt-get install -y openssh-client" =>
                    \E j \in InstallCalls :
                        /\ j < i
                        /\ trace[j].arg = "sudo apt-get update"
                        /\ trace[j].res = "ok"
        /\ \A i \in WhichCalls : i # first =>
              /\ trace[first].res = "exit1"
              /\ platform = "linux" =>
                    \E j \in InstallCalls :
                        /\ j < i
                        /\ trace[j].arg = "sudo apt-get install -y openssh-client"
                        /\ trace[j].res = "ok"
        /\ (trace[first].res = "exit1" /\ pc \notin {"which", "apt_update", "apt_install",
                                                    "verify"}
                /\ ~ToolsFailed) => Cardinality(WhichCalls) = 2
        /\ ToolsFailed =>
              /\ Returned
              /\ outcome = "rejected"
              /\ variant = "deploy" => privateKey = <<>>
              /\ \A i \in Idx : /\ trace[i].op # "setSecret"
                                /\ ~IsExec(trace[i], "ssh-agent -s")

RejectedAfterFailedVerification ==
    /\ Returned
    /\ platform = "linux"
    /\ error = VerifyError
    /\ Cardinality(InstallCalls) = 2

RECURSIVE Concat(_, _, _)
Concat(out, i, j) == IF i > j THEN "" ELSE out[i] \o Concat(out, i + 1, j)

FirstAt(out, name) == CHOOSE i \in 1..Len(out) :
                          out[i] = name /\ \A k \in 1..(i - 1) : out[k] # name

Terminated(out, name) ==
    HasToken(out, name) /\ \E k \in (FirstAt(out, name) + 1)..Len(out) : out[k] = ";"

\* the text between NAME= and the next ';'
ValueOf(out, name) ==
    LET i == FirstAt(out, name)
        j == CHOOSE k \in (i + 1)..Len(out) :
                 out[k] = ";" /\ \A m \in (i + 1)..(k - 1) : out[m] # ";"
    IN Concat(out, i + 1, j - 1)

IsSetEnv(e, name) == e.op = "setenv" /\ e.arg = name

\* C30: when the output of ssh-agent -s contains SSH_AUTH_SOCK=<s>; and
\* SSH_AGENT_PID=<p>;, both environment entries are set to <s> and <p> before
\* `ssh-add -` is invoked, and `ssh-add -` gets the key on standard input;
\* when the output cannot be parsed the environment entries are unchanged.
AgentEnvironmentExported ==
    \A out \in AgentStdout :
        /\ (Terminated(out, "SSH_AUTH_SOCK=") /\ Terminated(out, "SSH_AGENT_PID=")) =>
              /\ env = [SSH_AUTH_SOCK |-> ValueOf(out, "SSH_AUTH_SOCK="),
                        SSH_AGENT_PID |-> ValueOf(out, "SSH_AGENT_PID=")]
              /\ \E a \in Idx :
                    /\ IsSetEnv(trace[a], "SSH_AUTH_SOCK")
                    /\ trace[a].data = ValueOf(out, "SSH_AUTH_SOCK=")
              /\ \E a \in Idx :
                    /\ IsSetEnv(trace[a], "SSH_AGENT_PID")
                    /\ trace[a].data = ValueOf(out, "SSH_AGENT_PID=")
              /\ \A b \in Idx : IsExec(trace[b], "ssh-add -") =>
                    /\ trace[b].data = privateKey
                    /\ trace[b].data # <<>>
                    /\ \A a \in Idx : trace[a].op = "setenv" => a < b
                    /\ \E a \in Idx : a < b /\ IsSetEnv(trace[a], "SSH_AGENT_PID")
        /\ (out = <<>> \/ ~HasToken(out, "SSH_AUTH_SOCK=") \/ ~HasToken(out, "SSH_AGENT_PID=")) =>
              /\ env = [SSH_AUTH_SOCK |-> "", SSH_AGENT_PID |-> ""]
              /\ \A a \in Idx : trace[a].op # "setenv"

KeyPipedAfterExport ==
    /\ env.SSH_AUTH_SOCK = "/tmp/agent.1234"
    /\ env.SSH_AGENT_PID = "1234"
    /\ \E b \in Idx : IsExec(trace[b], "ssh-add -") /\ trace[b].res = "ok"

SetFailedCalls == {i \in Idx : trace[i].op = "setFailed"}

\* the error of the first call that threw or rejected outside cleanup
FirstFailure ==
    IF variant = "legacy" /\ LegacyMissingInput(input) # ""
        THEN InputError(LegacyMissingInput(input))
    ELSE IF \E i \in Idx : trace[i].op = "existsSync" /\ trace[i].res = "false"
        THEN SourceMissing(cfg.sourceDir)
    ELSE IF \E i \in Idx : trace[i].op = "readdirSync" /\ trace[i].res = "throw"
        THEN FsError("scandir")
    ELSE IF \E i \in Idx : IsExec(trace[i], "ssh-agent -s") /\ trace[i].res = "reject"
        THEN ExecError("ssh-agent")
    ELSE IF \E i \in Idx : IsExec(trace[i], "ssh-add -") /\ trace[i].res = "reject"
        THEN ExecError("ssh-add")
    ELSE IF \E i \in Idx : IsBatchWrite(trace[i]) /\ trace[i].res = "throw"
        THEN WriteError
    ELSE IF \E i \in Idx : trace[i].op = "exec" /\ trace[i].opt = "listeners"
                           /\ trace[i].res = "reject"
        THEN ExecError("sftp")
    ELSE IF (\E i \in Idx : IsExec(trace[i], "ssh-agent -s") /\ trace[i].res = "ok")
            /\ \A i \in Idx : trace[i].op # "setenv"
        THEN NullMatch
    ELSE NoError

\* C24: in the legacy variant a failing step never makes deploy reject: deploy
\* resolves, having called core.setFailed exactly once, with the message of
\* the first error (for a failed sftp invocation, the message of its error).
LegacyFailureResolves ==
    /\ outcome # "rejected"
    /\ Cardinality(SetFailedCalls) <= 1
    /\ (Returned /\ FirstFailure # NoError) =>
          /\ outcome = "resolved"
          /\ Cardinality(SetFailedCalls) = 1
          /\ \A i \in SetFailedCalls :
                /\ trace[i].arg = FirstFailure.msg
                /\ trace[i].data = FirstFailure.data
    /\ (Returned /\ FirstFailure = NoError) => SetFailedCalls = {}

LegacyResolvedAfterFailedSftp ==
    /\ Returned
    /\ outcome = "resolved"
    /\ FirstFailure = ExecError("sftp")
    /\ Cardinality(SetFailedCalls) = 1

KillCalls == {i \in Idx : IsExec(trace[i], "ssh-agent -k")}

\* C25: in the legacy variant, once startSshAgent has returned its cleanup
\* function, `ssh-agent -k` is invoked exactly once before deploy resolves,
\* whatever the batch write, the transfer and the batch deletion did; when no
\* cleanup function was obtained it is not invoked and deploy still resolves.
LegacyAgentCleanupOnce ==
    /\ Cardinality(KillCalls) <= 1
    /\ KillCalls # {} => agentInfo = "cleanupFn"
    /\ Returned =>
          /\ outcome = "resolved"
          /\ agentInfo = "cleanupFn" => Cardinality(KillCalls) = 1
          /\ agentInfo # "cleanupFn" => KillCalls = {}

LegacyAgentKilledAfterFailedBatchWrite ==
    /\ Returned
    /\ error = WriteError
    /\ Cardinality(KillCalls) = 1

\* C26: in the legacy variant, when the source directory does not exist, the
\* run is failed with setFailed after one existence check; no directory is
\* listed, no subprocess is spawned, no environment entry is set and no batch
\* script is written.
LegacySourceCheckedUpFront ==
    (~sourceExists /\ LegacyMissingInput(input) = "" /\ pc # "legacy_start") =>
        /\ Returned
        /\ outcome = "resolved"
        /\ Cardinality({i \in Idx : trace[i].op = "existsSync"}) = 1
        /\ \E i \in SetFailedCalls : trace[i].arg = SourceMissing(cfg.sourceDir).msg
        /\ env = [SSH_AUTH_SOCK |-> "", SSH_AGENT_PID |-> ""]
        /\ ~agent.alive
        /\ ~batchFile.exists
        /\ \A i \in Idx :
              trace[i].op \notin {"exec", "setenv", "writeFile", "readdirSync", "statSync"}

LegacyFailedForMissingSource ==
    /\ variant = "legacy"
    /\ ~sourceExists
    /\ Returned
    /\ error = SourceMissing("src")

OutputsSet(name) == {i \in Idx : IsSetOutput(trace[i], name)}

\* C27: a finished run of the legacy variant has either set both outputs
\* deployed-files and deployment-time, after a successful sftp invocation and
\* without calling setFailed, or has called setFailed and set no output; at no
\* point is only one of the two outputs set.
LegacyOutputsOrFailure ==
    /\ (OutputsSet("deployed-files") = {}) <=> (OutputsSet("deployment-time") = {})
    /\ OutputsSet("deployed-files") # {} =>
          /\ SetFailedCalls = {}
          /\ Cardinality(OutputsSet("deployed-files")) = 1
          /\ Cardinality(OutputsSet("deployment-time")) = 1
          /\ \E i \in Idx :
                /\ trace[i].op = "exec" /\ trace[i].opt = "listeners" /\ trace[i].res = "ok"
                /\ \A j \in OutputsSet("deployed-files") : i < j
    /\ Returned => (OutputsSet("deployed-files") # {} <=> SetFailedCalls = {})

LegacyOutputsSetAfterTransfer ==
    /\ variant = "legacy"
    /\ Returned
    /\ OutputsSet("deployed-files") # {}
    /\ OutputsSet("deployment-time") # {}
    /\ fileCount = 2

\* C28: if `ssh-agent -s` succeeded and credential setup then fails, because
\* its output cannot be parsed or because `ssh-add -` fails, `ssh-agent -k`
\* is invoked before deploy returns control to its caller.
AgentKilledAfterFailedSetup ==
    (Returned /\ (\E i \in Idx : IsExec(trace[i], "ssh-agent -s") /\ trace[i].res = "ok")
        /\ error \in {NoOutput, ParseError, ExecError("ssh-add")})
        => KillCalls # {}

\* the environment each spawned child process of the run was given
SpawnedEnvs(cmd) == {trace[i].data : i \in {j \in Idx : trace[j].op = "spawn" /\ trace[j].arg = cmd}}

\* C36: when deployWithDependencies is given a processEnv object other than
\* the real process environment, the SSH_AUTH_SOCK and SSH_AGENT_PID values
\* parsed from the agent's output are the ones in the environment of the
\* `ssh-add -` and `ssh-agent -k` child processes spawned afterwards.
InjectedEnvReachesChildren ==
    injected =>
        /\ \A e \in SpawnedEnvs("ssh-add -") : e = env
        /\ \A e \in SpawnedEnvs("ssh-agent -k") : e = env

\* the put directives of the script written in this run
ScriptedPuts == PutCount(batchFile.content)

\* C37: for every source directory tree, with subdirectories that hold files
\* included, the file count deploy reports equals the number of put
\* directives written to the batch script in the same run.
FileCountEqualsPutCount ==
    (BatchWritten /\ batchFile.exists) => fileCount = ScriptedPuts

\* the ambient agent variables as they were before the run started
EnvBeforeRun == [SSH_AUTH_SOCK |-> "", SSH_AGENT_PID |-> ""]

\* C35: after deploy has returned or rejected, SSH_AUTH_SOCK and SSH_AGENT_PID
\* have the values they had before the run started.
AmbientEnvRestored ==
    (variant = "deploy" /\ Returned) => env = EnvBeforeRun

\* some event before position i of the trace satisfies P
Earlier(i, P(_)) == \E j \in 1..(i - 1) : P(trace[j])

ToolsFound(e) == IsExec(e, "which ssh-add") /\ e.res = "exit0"

KeyLoaded(e) == IsExec(e, "ssh-add -") /\ e.res = "ok"

Listed(e, how) == e.op = "readdirSync" /\ e.opt = how /\ e.res = "ok"

CountedFiles(e) == Listed(e, "recursive")

ListedEntries(e) == Listed(e, "withFileTypes")

BatchWriteOk(e) == IsBatchWrite(e) /\ e.res = "ok"

IdentityWriteOk(e) == IsIdentityWrite(e) /\ e.res = "ok"

ReferenceKey == DefaultInput.private_key

IsLog(e, msg) == e.op = "log" /\ e.arg = msg

ConfigLogged == \E i \in Idx : IsLog(trace[i], "Configuration validated:")

\* C39: the log messages of deploy do not depend on the private key: a run
\* emits the messages that the run with another key and the same collaborator
\* behaviour emits, so the key-dependent messages (the note about the added
\* newline, the configuration summary) are those of the reference key.
LogsIndependentOfKey ==
    (variant = "deploy" /\ input.private_key # <<>> /\ ConfigLogged) =>
        /\ (\E i \in Idx : IsLog(trace[i], "Added missing newline to private key"))
              <=> (NormalizeKey(ReferenceKey) # ReferenceKey)
        /\ \A i \in Idx : IsLog(trace[i], "Configuration validated:") =>
              trace[i].data = ConfigMessage(cfg, NormalizeKey(ReferenceKey)).data

\* the operations that carry the key: the setSecret call, the stdin of
\* `ssh-add -` and the write of the identity file
CarriesKey(e) ==
    \/ e.op = "setSecret"
    \/ IsExec(e, "ssh-add -")
    \/ IsIdentityWrite(e)

\* C34: with default dependencies deployWithDependencies performs the external
\* operations of deploy with the same arguments and has the same outcome: the
\* key it masks, pipes to ssh-add and writes to disk is the normalized key
\* deploy uses, and like deploy it has run the tools check by the time it
\* rejects for a missing required input.
DependenciesVariantMatchesDeploy ==
    ~injected =>
        /\ \A i \in Idx : CarriesKey(trace[i]) =>
              trace[i].data = NormalizeKey(input.private_key)
        /\ (Returned /\ ~fromParams /\ MissingInput(input) # "") =>
              \E i \in Idx : IsExec(trace[i], "which ssh-add")

Settled == Returned /\ outcome \in {"resolved", "rejected"}

\* C31: when every external call eventually returns or fails, every run of
\* deploy eventually terminates, and in exactly one of the two outcomes: it
\* has either resolved or rejected, and that outcome does not change any more.
DeployTerminates ==
    /\ <>[]Settled
    /\ [][outcome # "running" => outcome' = outcome]_vars

DeployResolvedAfterFailedKill ==
    /\ variant = "deploy"
    /\ Returned
    /\ outcome = "resolved"
    /\ agent.alive
    /\ \E i \in Idx : IsExec(trace[i], "ssh-agent -k") /\ trace[i].res = "reject"

IsLegacySftp(e) == e.op = "exec" /\ e.opt = "listeners"

\* the level the rule of the stderr listener gives a text: error when it
\* contains 'Error' or 'fatal', else warning when it contains 'Warning', else
\* info
ExpectedLevel(text) ==
    CASE \E i \in 1..Len(text) : text[i] \in {"Error", "fatal"} -> "core.error"
      [] /\ \A i \in 1..Len(text) : text[i] \notin {"Error", "fatal"}
         /\ \E i \in 1..Len(text) : text[i] = "Warning" -> "core.warning"
      [] OTHER -> "core.info"

StderrEvents == {i \in Idx : trace[i].op = "stderr"}

\* C32: each stderr chunk of the sftp client produces exactly one log call,
\* at level error if its text contains 'Error' or 'fatal', otherwise warning
\* if it contains 'Warning', otherwise info; the levels never change the
\* outcome of the run, which the exit status of sftp alone decides.
StderrLoggedByLevel ==
    /\ \A i \in StderrEvents :
          /\ i < Len(trace)
          /\ trace[i + 1].op = "log"
          /\ trace[i + 1].fn = ExpectedLevel(trace[i].data)
          /\ (i + 1 < Len(trace)) => trace[i + 2].op # "log"
    /\ \A i \in Idx : IsLegacySftp(trace[i]) =>
          (trace[i].res = "reject" <=> SetFailedCalls # {})
    /\ (StderrEvents # {} /\ ~\E i \in Idx : IsLegacySftp(trace[i])) => SetFailedCalls = {}

TransferSucceededDespiteErrorChunks ==
    /\ variant = "legacy"
    /\ Returned
    /\ SetFailedCalls = {}
    /\ \E i \in StderrEvents :
          /\ trace[i].data = <<"Warning", "Error">>
          /\ trace[i + 1].fn = "core.error"
    /\ \E i \in StderrEvents :
          /\ trace[i].data = <<" ", "Warning", "\n">>
          /\ trace[i + 1].fn = "core.warning"

\* the pid in the environment of each `ssh-agent -k` an invocation spawned
KilledPids(r) ==
    {trace[r][i].data.SSH_AGENT_PID :
        i \in {j \in 1..Len(trace[r]) : /\ trace[r][j].op = "spawn"
                                        /\ trace[r][j].arg = "ssh-agent -k"}}

AllAgentsStarted == \A r \in Runs : pc[r] \notin {"which", "agent_start"}

\* C33: two invocations of deploy interleaved at their await points collide
\* on the ambient agent variables: an invocation's `ssh-agent -k` terminates
\* the agent the environment names at that moment, never another one, so the
\* agent of an invocation whose SSH_AGENT_PID was overwritten by the other
\* invocation is not terminated by anybody.
CollidingRunsShareAgent ==
    [][\A a \in Runs :
          /\ (agent[a].alive /\ ~agent'[a].alive) =>
                /\ AgentPid(a) = env.SSH_AGENT_PID
                /\ \E r \in Runs : pc[r] = "kill_agent" /\ pc'[r] = "done"
          /\ (agent[a].alive /\ AllAgentsStarted /\ AgentPid(a) # env.SSH_AGENT_PID) =>
                agent'[a].alive]_vars

FirstAgentOrphaned ==
    /\ variant = "concurrent"
    /\ \A r \in Runs : pc[r] = "done" /\ outcome[r] = "resolved"
    /\ env = [SSH_AUTH_SOCK |-> AgentSock(2), SSH_AGENT_PID |-> AgentPid(2)]
    /\ \A r \in Runs : KilledPids(r) = {AgentPid(2)}
    /\ agent[1].alive
    /\ ~agent[2].alive

====
